---- MODULE Spec2Model ----
(***************************************************************************)
(* nestjs-io-ts: the codec combinators (optional, nullable, withDefault,   *)
(* crossValidate, transform, withMessage), the error formatting            *)
(* (formatErrors and its helpers) and the decodeAndThrow facade, together  *)
(* with the io-ts 2.2 codecs they are built on (t.string, t.type, t.array, *)
(* t.union, t.brand).                                                      *)
(***************************************************************************)
EXTENDS Integers, Sequences, FiniteSets, TLC

(***************************************************************************)
(* JavaScript values.  Every value is a record tagged with its kind, so    *)
(* that values of different kinds can be compared.                         *)
(***************************************************************************)
Undefined == [t |-> "undefined"]
Null == [t |-> "null"]
Str(s) == [t |-> "string", s |-> s]
Num(n) == [t |-> "number", n |-> n]
Bool(b) == [t |-> "boolean", b |-> b]
\* a number that is not an integer: n + tenths / 10, with tenths in 1..9
Real(n, tenths) == [t |-> "number", n |-> n, tenths |-> tenths]
\* Number("bad"), the number that is not a number
NaN == [t |-> "number", nan |-> TRUE]

isNaN(v) == "nan" \in DOMAIN v

\* Number.isInteger(v)
NumberIsInteger(v) == v.t = "number" /\ DOMAIN v = {"t", "n"}

\* a plain object: o maps each own property name to its value
Obj(f) == [t |-> "object", o |-> f]
\* an array: a is the sequence of its elements (index i is a[i+1])
Arr(q) == [t |-> "array", a |-> q]

EmptyObj == Obj([k \in {} |-> Undefined])

\* o[k] of JavaScript: undefined when k is not a property
Get(o, k) == IF k \in DOMAIN o.o THEN o.o[k] ELSE Undefined

hasOwnProperty(o, k) == k \in DOMAIN o.o

\* o with property k set to v
Put(o, k, v) == Obj([x \in (DOMAIN o.o) \cup {k} |-> IF x = k THEN v ELSE o.o[x]])

\* the typeof operator
typeof(v) ==
  CASE v.t = "undefined" -> "undefined"
    [] v.t = "string" -> "string"
    [] v.t = "number" -> "number"
    [] v.t = "boolean" -> "boolean"
    [] v.t = "function" -> "function"
    [] OTHER -> "object"

RECURSIVE Join(_, _)
\* Array.prototype.join on a sequence of strings
Join(strs, sep) ==
  IF Len(strs) = 0 THEN ""
  ELSE IF Len(strs) = 1 THEN strs[1]
  ELSE strs[1] \o sep \o Join(Tail(strs), sep)

RECURSIVE JSONstringify(_)
RECURSIVE stringifyProperties(_, _)
\* the "key":value pairs of an object's properties, comma separated
stringifyProperties(o, keys) ==
  IF keys = {} THEN ""
  ELSE LET k == CHOOSE x \in keys : TRUE
       IN "\"" \o k \o "\":" \o JSONstringify(o.o[k])
            \o (IF keys = {k} THEN "" ELSE "," \o stringifyProperties(o, keys \ {k}))

\* JSON.stringify of the values used as defaults
JSONstringify(v) ==
  CASE v.t = "string" -> "\"" \o v.s \o "\""
    [] v.t = "array" -> "[" \o Join([i \in 1..Len(v.a) |-> JSONstringify(v.a[i])], ",") \o "]"
    [] v.t = "object" -> "{" \o stringifyProperties(v, DOMAIN v.o) \o "}"
    [] v.t = "number" -> ToString(v.n)
    [] v.t = "boolean" -> (IF v.b THEN "true" ELSE "false")
    [] v.t = "null" -> "null"
    [] OTHER -> "undefined"

(***************************************************************************)
(* Either results of validate.  A third tag, "Throw", stands for a call    *)
(* that did not return because user code raised an exception.  log is the  *)
(* sequence of calls made while validating.                                *)
(***************************************************************************)
success(v) == [tag |-> "Right", right |-> v, left |-> <<>>, thrown |-> Undefined, log |-> <<>>]

failures(errs) == [tag |-> "Left", right |-> Undefined, left |-> errs, thrown |-> Undefined, log |-> <<>>]

\* t.failure(value, context, message): one failure; message is undefined when not given
failure(value, context, message) ==
  failures(<<[value |-> value, context |-> context, message |-> message]>>)

\* an exception escaping from user code
raise(e) == [tag |-> "Throw", right |-> Undefined, left |-> <<>>, thrown |-> e, log |-> <<>>]

\* r with the calls in log made before it
Logged(log, r) == [r EXCEPT !.log = log \o r.log]

appendContext(c, key, decoder, actual) ==
  Append(c, [key |-> key, type |-> decoder, actual |-> actual])

(***************************************************************************)
(* User-supplied functions.  A codec holds the name of the function; these *)
(* operators apply it.  Each returns [threw, value]: value is the result,  *)
(* or the thrown value when threw.                                         *)
(***************************************************************************)
returned(v) == [threw |-> FALSE, value |-> v]

threw(e) == [threw |-> TRUE, value |-> e]

\* new Error(message)
Error(message) == [t |-> "Error", message |-> message]

\* the strings the brand predicates accept, among the strings of the model
ValidEmails == {"a@b.co", "A@B.CO"}

\* the refinement predicates of the branded types
\* a string given by its characters, for the functions that read a string's text
Text(chars) == [t |-> "string", chars |-> chars]

DigitValue ==
  [c \in {"0", "1", "2", "3", "4", "5", "6", "7", "8", "9"} |->
     CASE c = "0" -> 0 [] c = "1" -> 1 [] c = "2" -> 2 [] c = "3" -> 3 [] c = "4" -> 4
       [] c = "5" -> 5 [] c = "6" -> 6 [] c = "7" -> 7 [] c = "8" -> 8 [] OTHER -> 9]

\* \d
isDigit(c) == c \in DOMAIN DigitValue

\* /^\d{4}-(?:0[1-9]|1[0-2])-(?:0[1-9]|[12]\d|3[01])$/.test(s)
DATE_STRING_REGEX(s) ==
  /\ Len(s) = 10
  /\ \A i \in 1..4 : isDigit(s[i])
  /\ s[5] = "-"
  /\ \/ s[6] = "0" /\ isDigit(s[7]) /\ s[7] # "0"
     \/ s[6] = "1" /\ s[7] \in {"0", "1", "2"}
  /\ s[8] = "-"
  /\ \/ s[9] = "0" /\ isDigit(s[10]) /\ s[10] # "0"
     \/ s[9] \in {"1", "2"} /\ isDigit(s[10])
     \/ s[9] = "3" /\ s[10] \in {"0", "1"}

RECURSIVE split(_, _)
\* s.split(separator)
split(s, separator) ==
  IF \A i \in 1..Len(s) : s[i] # separator THEN <<s>>
  ELSE LET i == CHOOSE j \in 1..Len(s) :
                  s[j] = separator /\ \A k \in 1..(j - 1) : s[k] # separator
       IN <<SubSeq(s, 1, i - 1)>> \o split(SubSeq(s, i + 1, Len(s)), separator)

RECURSIVE NumberOfDigits(_)
\* Number(s) of a string of decimal digits
NumberOfDigits(s) ==
  IF Len(s) = 0 THEN 0
  ELSE 10 * NumberOfDigits(SubSeq(s, 1, Len(s) - 1)) + DigitValue[s[Len(s)]]

\* the calendar of the Date object
DaysInMonth(year, month) ==
  IF month \in {4, 6, 9, 11} THEN 30
  ELSE IF month # 2 THEN 31
  ELSE IF year % 4 = 0 /\ (year % 100 # 0 \/ year % 400 = 0) THEN 29
  ELSE 28

\* how an engine reads a date-only string whose day its month does not have: V8
\* counts the days on into the next month, others give an invalid Date
Engines == {"rollover", "strict"}

\* new Date(s) for a string of the form YYYY-MM-DD: the UTC fields of the date
NewDate(engine, s) ==
  LET parts == split(s, "-")
      year == NumberOfDigits(parts[1])
      month == NumberOfDigits(parts[2])
      day == NumberOfDigits(parts[3])
  IN IF day <= DaysInMonth(year, month)
     THEN [isNaN |-> FALSE, getUTCFullYear |-> year, getUTCMonth |-> month - 1,
           getUTCDate |-> day]
     ELSE IF engine = "strict"
     THEN [isNaN |-> TRUE, getUTCFullYear |-> 0, getUTCMonth |-> 0, getUTCDate |-> 0]
     ELSE [isNaN |-> FALSE, getUTCFullYear |-> year, getUTCMonth |-> month,
           getUTCDate |-> day - DaysInMonth(year, month)]

\* an isValidDateString that trusts the pattern
isValidDateStringByPattern(engine, s) == DATE_STRING_REGEX(s)

\* isValidDateString(s) under an engine
isValidDateStringOn(engine, s) ==
  IF ~DATE_STRING_REGEX(s) THEN FALSE
  ELSE LET date == NewDate(engine, s)
           parts == split(s, "-")
           year == NumberOfDigits(parts[1])
           month == NumberOfDigits(parts[2])
           day == NumberOfDigits(parts[3])
       IN IF date.isNaN THEN FALSE
          ELSE /\ date.getUTCFullYear = year
               /\ date.getUTCMonth + 1 = month
               /\ date.getUTCDate = day

\* isValidDateString(s) under Node's engine, V8
isValidDateString(s) == isValidDateStringOn("rollover", s)

\* the predicates with a Port that does not ask for an integer
predicateOfAnyNumber(p, a) ==
  CASE p = "isValidEmail" -> a.s \in ValidEmails
    [] p = "isValidDateString" -> isValidDateString(a.chars)
    [] p = "isPort" -> ~isNaN(a) /\ a.n >= 0 /\ (a.n < 65535 \/ a = Num(65535))
    [] p = "isPositive" -> ~isNaN(a) /\ (a.n > 0 \/ (a.n = 0 /\ ~NumberIsInteger(a)))
    [] OTHER -> FALSE

predicate(p, a) ==
  CASE p = "isValidEmail" -> a.s \in ValidEmails
    [] p = "isValidDateString" -> isValidDateString(a.chars)
    [] p = "isPort" -> NumberIsInteger(a) /\ a.n >= 0 /\ a.n <= 65535
    [] p = "isPositive" -> ~isNaN(a) /\ (a.n > 0 \/ (a.n = 0 /\ ~NumberIsInteger(a)))
    [] OTHER -> FALSE

\* the validators handed to crossValidate: each returns a list of {field, message}
CrossValidator(f, data) ==
  CASE f = "passwordsMatch" ->
         returned(IF Get(data, "password") # Get(data, "confirmPassword")
                  THEN <<[field |-> "confirmPassword", message |-> "Passwords do not match"]>>
                  ELSE <<>>)
    [] f = "noErrors" -> returned(<<>>)
    [] f = "reject" -> returned(<<[field |-> "value", message |-> "Rejected"]>>)
    [] f = "twoErrors" ->
         returned(<<[field |-> "confirmPassword", message |-> "Passwords do not match"],
                    [field |-> "confirmEmail", message |-> "Emails do not match"]>>)
    [] OTHER -> threw(Error("validator failed"))

\* String.prototype.toLowerCase on the strings of the model
toLowerCase(s) == IF s = "A@B.CO" THEN "a@b.co" ELSE s

\* new Date(s): an object that is no string
Date(s) == [t |-> "date", iso |-> s]

\* the functions handed to transform
Transformer(f, a) ==
  CASE f = "toLowerCase" -> returned(Str(toLowerCase(a.s)))
    [] f = "toDate" -> returned(Date(a.s))
    [] f = "toNone" -> returned(Str("none"))
    [] f = "throwsString" -> threw(Str("not an Error"))
    [] OTHER -> threw(Error("Transform error!"))

(***************************************************************************)
(* Codecs.  name is the codec's name; kind selects its validate, is and    *)
(* encode functions.                                                       *)
(***************************************************************************)
t_string == [kind |-> "string", name |-> "string"]
t_number == [kind |-> "number", name |-> "number"]
t_boolean == [kind |-> "boolean", name |-> "boolean"]
t_null == [kind |-> "null", name |-> "null"]
t_undefined == [kind |-> "undefined", name |-> "undefined"]

\* t.type(props): props is the sequence of [key, type] in declaration order
t_type(props) ==
  [kind |-> "type",
   name |-> "{ " \o Join([i \in 1..Len(props) |-> props[i].key \o ": " \o props[i].type.name], ", ") \o " }",
   props |-> props]

t_array(item) == [kind |-> "array", name |-> "Array<" \o item.name \o ">", item |-> item]

t_union(codecs) ==
  [kind |-> "union",
   name |-> "(" \o Join([i \in 1..Len(codecs) |-> codecs[i].name], " | ") \o ")",
   types |-> codecs]

t_partial(props) ==
  [kind |-> "partial",
   name |-> "Partial<{ " \o Join([i \in 1..Len(props) |-> props[i].key \o ": " \o props[i].type.name], ", ") \o " }>",
   props |-> props]

t_intersection(codecs) ==
  [kind |-> "intersection",
   name |-> "(" \o Join([i \in 1..Len(codecs) |-> codecs[i].name], " & ") \o ")",
   types |-> codecs]

\* t.brand(codec, predicate, name)
t_brand(codec, p, name) == [kind |-> "brand", name |-> name, codec |-> codec, predicate |-> p]

Email == t_brand(t_string, "isValidEmail", "Email")

DateString == t_brand(t_string, "isValidDateString", "DateString")

Port == t_brand(t_number, "isPort", "Port")

\* a brand that is not one of the library's: its name is in no table
Positive == t_brand(t_number, "isPositive", "Positive")

\* optional with the members the other way round: undefined is tried before the codec
optionalUndefinedFirst(codec) == t_union(<<t_undefined, codec>>)

optional(codec) == t_union(<<codec, t_undefined>>)

nullable(codec) == t_union(<<codec, t_null>>)

withDefault(codec, defaultValue) ==
  [kind |-> "withDefault",
   name |-> "withDefault(" \o codec.name \o ", " \o JSONstringify(defaultValue) \o ")",
   codec |-> codec, defaultValue |-> defaultValue]

crossValidate(codec, validator) ==
  [kind |-> "crossValidate", name |-> "crossValidate(" \o codec.name \o ")",
   codec |-> codec, validator |-> validator]

transform(codec, transformer) ==
  [kind |-> "transform", name |-> "transform(" \o codec.name \o ")",
   codec |-> codec, transformer |-> transformer]

\* a CustomErrorMessages object; a field that is not set is undefined
CustomErrorMessages(invalid, required, code, suggestion) ==
  [invalid |-> invalid, required |-> required, code |-> code, suggestion |-> suggestion]

\* a function (value) => string given as a message
MessageFn(f) == [t |-> "function", fn |-> f]

\* a withMessage that names its wrapper after itself
withMessageRenamed(codec, messages) ==
  [kind |-> "withMessage", name |-> "withMessage(" \o codec.name \o ")", codec |-> codec,
   CUSTOM_MESSAGE_SYMBOL |->
     IF "t" \in DOMAIN messages /\ typeof(messages) = "function"
     THEN CustomErrorMessages(messages, Undefined, Undefined, Undefined)
     ELSE messages]

\* the wrapper keeps the codec's name, is, validate and encode, and carries the messages
withMessage(codec, messages) ==
  LET normalizedMessages ==
        IF "t" \in DOMAIN messages /\ typeof(messages) = "function"
        THEN CustomErrorMessages(messages, Undefined, Undefined, Undefined)
        ELSE messages
  IN [kind |-> "withMessage", name |-> codec.name, codec |-> codec,
      CUSTOM_MESSAGE_SYMBOL |-> normalizedMessages]

(***************************************************************************)
(* validate(codec, u, c): the codec's validate function applied to the     *)
(* input u in context c.                                                   *)
(***************************************************************************)
RECURSIVE validate(_, _, _)
RECURSIVE typeLoop(_, _, _, _, _, _)
RECURSIVE arrayLoop(_, _, _, _, _, _)
RECURSIVE unionLoop(_, _, _, _, _, _)
RECURSIVE partialLoop(_, _, _, _, _, _)
RECURSIVE intersectionLoop(_, _, _, _, _, _, _)
RECURSIVE mergeLoop(_, _, _, _)

\* a record decode that gives up at the first property that fails
typeLoopStopAtFirst(props, i, a, c, errors, log) ==
  IF i > Len(props)
  THEN Logged(log, IF Len(errors) > 0 THEN failures(errors) ELSE success(a))
  ELSE LET k == props[i].key
           type == props[i].type
           ak == Get(a, k)
           result == validate(type, ak, appendContext(c, k, type, ak))
       IN IF result.tag # "Right" THEN Logged(log, result)
          ELSE typeLoop(props, i + 1, Put(a, k, result.right), c, errors, log \o result.log)

\* io-ts InterfaceType.validate from property i on: a is the object built so far
typeLoop(props, i, a, c, errors, log) ==
  IF i > Len(props)
  THEN Logged(log, IF Len(errors) > 0 THEN failures(errors) ELSE success(a))
  ELSE LET k == props[i].key
           type == props[i].type
           ak == Get(a, k)
           result == validate(type, ak, appendContext(c, k, type, ak))
       IN CASE result.tag = "Throw" -> Logged(log, result)
            [] result.tag = "Left" ->
                 typeLoop(props, i + 1, a, c, errors \o result.left, log \o result.log)
            [] OTHER ->
                 LET vak == result.right
                     changed == vak # ak \/ (vak = Undefined /\ ~hasOwnProperty(a, k))
                 IN typeLoop(props, i + 1, IF changed THEN Put(a, k, vak) ELSE a, c,
                             errors, log \o result.log)

\* io-ts ArrayType.validate from element i (0-based) on: as is the array built so far
arrayLoop(item, i, as, c, errors, log) ==
  IF i >= Len(as)
  THEN Logged(log, IF Len(errors) > 0 THEN failures(errors) ELSE success(Arr(as)))
  ELSE LET ui == as[i + 1]
           result == validate(item, ui, appendContext(c, ToString(i), item, ui))
       IN CASE result.tag = "Throw" -> Logged(log, result)
            [] result.tag = "Left" ->
                 arrayLoop(item, i + 1, as, c, errors \o result.left, log \o result.log)
            [] OTHER ->
                 arrayLoop(item, i + 1, [as EXCEPT ![i + 1] = result.right], c,
                           errors, log \o result.log)

\* io-ts UnionType.validate from member i (0-based) on
unionLoop(codecs, i, u, c, errors, log) ==
  IF i >= Len(codecs)
  THEN Logged(log, failures(errors))
  ELSE LET codec == codecs[i + 1]
           result == validate(codec, u, appendContext(c, ToString(i), codec, u))
       IN CASE result.tag = "Throw" -> Logged(log, result)
            [] result.tag = "Left" ->
                 unionLoop(codecs, i + 1, u, c, errors \o result.left, log \o result.log)
            [] OTHER -> Logged(log \o result.log, success(result.right))

\* io-ts PartialType.validate from property i on: a failure of an undefined property
\* does not count
partialLoop(props, i, a, c, errors, log) ==
  IF i > Len(props)
  THEN Logged(log, IF Len(errors) > 0 THEN failures(errors) ELSE success(a))
  ELSE LET k == props[i].key
           type == props[i].type
           ak == Get(a, k)
           result == validate(type, ak, appendContext(c, k, type, ak))
       IN CASE result.tag = "Throw" -> Logged(log, result)
            [] result.tag = "Left" ->
                 partialLoop(props, i + 1, a, c,
                             IF ak # Undefined THEN errors \o result.left ELSE errors,
                             log \o result.log)
            [] OTHER ->
                 partialLoop(props, i + 1,
                             IF result.right # ak THEN Put(a, k, result.right) ELSE a,
                             c, errors, log \o result.log)

\* the loop of io-ts mergeAll over the decoded values us[i], ...: r is the merged object
mergeLoop(base, us, i, r) ==
  IF i > Len(us) THEN Obj(r)
  ELSE IF us[i].t # "object" THEN mergeLoop(base, us, i + 1, r)
  ELSE LET u == us[i].o
           taken(k) == k \in DOMAIN u
                         /\ (k \notin DOMAIN r \/ base.t # "object" \/ u[k] # Get(base, k))
       IN mergeLoop(base, us, i + 1,
                    [k \in DOMAIN r \cup DOMAIN u |-> IF taken(k) THEN u[k] ELSE r[k]])

\* io-ts mergeAll(base, us)
mergeAll(base, us) ==
  IF \A i \in 1..Len(us) : us[i] = base THEN base
  ELSE IF \A i \in 1..Len(us) : us[i].t # "object" THEN us[Len(us)]
  ELSE mergeLoop(base, us, 1, EmptyObj.o)

\* io-ts IntersectionType.validate from member i (0-based) on
intersectionLoop(codecs, i, u, c, us, errors, log) ==
  IF i >= Len(codecs)
  THEN Logged(log, IF Len(errors) > 0 THEN failures(errors) ELSE success(mergeAll(u, us)))
  ELSE LET codec == codecs[i + 1]
           result == validate(codec, u, appendContext(c, ToString(i), codec, u))
       IN CASE result.tag = "Throw" -> Logged(log, result)
            [] result.tag = "Left" ->
                 intersectionLoop(codecs, i + 1, u, c, us, errors \o result.left,
                                  log \o result.log)
            [] OTHER ->
                 intersectionLoop(codecs, i + 1, u, c, Append(us, result.right), errors,
                                  log \o result.log)

\* the call of a codec's validate, as it is logged
Call(codec, u) == <<[ev |-> "validate", codec |-> codec, value |-> u]>>

\* the validate of the primitive codecs: ok tells whether u is of the codec's type
validatePrimitive(codec, u, c, ok) ==
  Logged(Call(codec, u), IF ok THEN success(u) ELSE failure(u, c, Undefined))

\* io-ts refinement (t.brand): the base codec, then the predicate
validateBrand(codec, u, c) ==
  LET e == validate(codec.codec, u, c)
      a == e.right
      asked == <<[ev |-> "predicate", predicate |-> codec.predicate, value |-> a]>>
  IN IF e.tag # "Right" THEN Logged(Call(codec, u), e)
     ELSE Logged(Call(codec, u) \o e.log \o asked,
                 IF predicate(codec.predicate, a) THEN success(a)
                 ELSE failure(a, c, Undefined))

validateType(codec, u, c) ==
  IF u.t # "object" THEN Logged(Call(codec, u), failure(u, c, Undefined))
  ELSE typeLoop(codec.props, 1, u, c, <<>>, Call(codec, u))

validateArray(codec, u, c) ==
  IF u.t # "array" THEN Logged(Call(codec, u), failure(u, c, Undefined))
  ELSE arrayLoop(codec.item, 0, u.a, c, <<>>, Call(codec, u))

validateUnion(codec, u, c) == unionLoop(codec.types, 0, u, c, <<>>, Call(codec, u))

validatePartial(codec, u, c) ==
  IF u.t # "object" THEN Logged(Call(codec, u), failure(u, c, Undefined))
  ELSE partialLoop(codec.props, 1, u, c, <<>>, Call(codec, u))

validateIntersection(codec, u, c) ==
  intersectionLoop(codec.types, 0, u, c, <<>>, <<>>, Call(codec, u))

\* a withDefault that decodes its default value with the codec
validateWithDefaultChecked(codec, u, c) ==
  Logged(Call(codec, u),
         validate(codec.codec, IF u = Undefined THEN codec.defaultValue ELSE u, c))

\* the validate function withDefault gives its codec
validateWithDefault(codec, u, c) ==
  IF u = Undefined THEN Logged(Call(codec, u), success(codec.defaultValue))
  ELSE Logged(Call(codec, u), validate(codec.codec, u, c))

\* a crossValidate that hands the input to the validator before the codec has decoded it
validateCrossValidateEager(codec, u, c) ==
  LET asked == <<[ev |-> "validator", validator |-> codec.validator, value |-> u]>>
      result == validate(codec.codec, u, c)
      crossErrors == CrossValidator(codec.validator, result.right)
  IN IF result.tag # "Right" THEN Logged(Call(codec, u) \o asked, result)
     ELSE Logged(Call(codec, u) \o asked \o result.log,
                 IF crossErrors.threw THEN raise(crossErrors.value)
                 ELSE IF Len(crossErrors.value) > 0
                      THEN failure(u, c, Str("Rejected"))
                      ELSE [result EXCEPT !.log = <<>>])

\* the validate function crossValidate gives its codec
validateCrossValidate(codec, u, c) ==
  LET result == validate(codec.codec, u, c)
      crossErrors == CrossValidator(codec.validator, result.right)
      asked == <<[ev |-> "validator", validator |-> codec.validator, value |-> result.right]>>
      messages == [i \in 1..Len(crossErrors.value) |->
                     crossErrors.value[i].field \o ": " \o crossErrors.value[i].message]
  IN IF result.tag # "Right" THEN Logged(Call(codec, u), result)
     ELSE Logged(Call(codec, u) \o result.log \o asked,
                 IF crossErrors.threw THEN raise(crossErrors.value)
                 ELSE IF Len(crossErrors.value) > 0
                      THEN failure(u, c, Str(Join(messages, "; ")))
                      ELSE [result EXCEPT !.log = <<>>])

\* a transform that calls the transformer outside any try
validateTransformUncaught(codec, u, c) ==
  LET result == validate(codec.codec, u, c)
      transformed == Transformer(codec.transformer, result.right)
      asked == <<[ev |-> "transformer", transformer |-> codec.transformer,
                  value |-> result.right]>>
  IN IF result.tag # "Right" THEN Logged(Call(codec, u), result)
     ELSE Logged(Call(codec, u) \o result.log \o asked,
                 IF transformed.threw THEN raise(transformed.value)
                 ELSE success(transformed.value))

\* the validate function transform gives its codec
validateTransform(codec, u, c) ==
  LET result == validate(codec.codec, u, c)
      transformed == Transformer(codec.transformer, result.right)
      asked == <<[ev |-> "transformer", transformer |-> codec.transformer,
                  value |-> result.right]>>
      error == transformed.value
      message == IF error.t = "Error" THEN error.message ELSE "Transform failed"
  IN IF result.tag # "Right" THEN Logged(Call(codec, u), result)
     ELSE Logged(Call(codec, u) \o result.log \o asked,
                 IF transformed.threw THEN failure(u, c, Str(message))
                 ELSE success(transformed.value))

validate(codec, u, c) ==
  CASE codec.kind = "string" -> validatePrimitive(codec, u, c, u.t = "string")
    [] codec.kind = "number" -> validatePrimitive(codec, u, c, u.t = "number")
    [] codec.kind = "boolean" -> validatePrimitive(codec, u, c, u.t = "boolean")
    [] codec.kind = "null" -> validatePrimitive(codec, u, c, u.t = "null")
    [] codec.kind = "undefined" -> validatePrimitive(codec, u, c, u.t = "undefined")
    [] codec.kind = "brand" -> validateBrand(codec, u, c)
    [] codec.kind = "type" -> validateType(codec, u, c)
    [] codec.kind = "array" -> validateArray(codec, u, c)
    [] codec.kind = "union" -> validateUnion(codec, u, c)
    [] codec.kind = "partial" -> validatePartial(codec, u, c)
    [] codec.kind = "intersection" -> validateIntersection(codec, u, c)
    [] codec.kind = "withDefault" -> validateWithDefault(codec, u, c)
    [] codec.kind = "crossValidate" -> validateCrossValidate(codec, u, c)
    [] codec.kind = "transform" -> validateTransform(codec, u, c)
    [] OTHER ->
         \* withMessage: the wrapper's validate is the wrapped codec's own function
         validate(codec.codec, u, c)

\* Type.decode: validate in the root context
decode(codec, i) == validate(codec, i, <<[key |-> "", type |-> codec, actual |-> i]>>)

RECURSIVE is(_, _)
\* the codec's type guard
is(codec, u) ==
  CASE codec.kind = "string" -> u.t = "string"
    [] codec.kind = "number" -> u.t = "number"
    [] codec.kind = "boolean" -> u.t = "boolean"
    [] codec.kind = "null" -> u.t = "null"
    [] codec.kind = "undefined" -> u.t = "undefined"
    [] codec.kind = "brand" -> is(codec.codec, u) /\ predicate(codec.predicate, u)
    [] codec.kind = "type" ->
         /\ u.t = "object"
         /\ \A i \in 1..Len(codec.props) :
              LET k == codec.props[i].key
                  uk == Get(u, k)
              IN ~(uk = Undefined /\ ~hasOwnProperty(u, k)) /\ is(codec.props[i].type, uk)
    [] codec.kind = "array" ->
         u.t = "array" /\ \A i \in 1..Len(u.a) : is(codec.item, u.a[i])
    [] codec.kind = "union" -> \E i \in 1..Len(codec.types) : is(codec.types[i], u)
    [] codec.kind = "partial" ->
         /\ u.t = "object"
         /\ \A i \in 1..Len(codec.props) :
              LET uk == Get(u, codec.props[i].key)
              IN uk = Undefined \/ is(codec.props[i].type, uk)
    [] codec.kind = "intersection" -> \A i \in 1..Len(codec.types) : is(codec.types[i], u)
    [] OTHER ->
         \* withDefault, crossValidate, transform and withMessage hand on codec.is
         is(codec.codec, u)

RECURSIVE useIdentity(_)
\* whether the codec's encode is io-ts's identity function itself: a codec handed on
\* as codec.encode keeps it, the arrow function transform makes does not
useIdentity(codec) ==
  CASE codec.kind \in {"string", "number", "boolean", "null", "undefined"} -> TRUE
    [] codec.kind \in {"type", "partial"} ->
         \A i \in 1..Len(codec.props) : useIdentity(codec.props[i].type)
    [] codec.kind = "array" -> useIdentity(codec.item)
    [] codec.kind \in {"union", "intersection"} ->
         \A i \in 1..Len(codec.types) : useIdentity(codec.types[i])
    [] codec.kind = "transform" -> FALSE
    [] OTHER -> useIdentity(codec.codec)

RECURSIVE encode(_, _)
RECURSIVE encodeProps(_, _, _, _)
RECURSIVE encodeItems(_, _, _)
\* io-ts InterfaceType.encode and PartialType.encode from property i on: s is the copy
\* made so far; PartialType leaves an undefined property alone
encodeProps(props, i, s, partial) ==
  IF i > Len(props) THEN returned(s)
  ELSE LET k == props[i].key
           e == encode(props[i].type, Get(s, k))
       IN IF useIdentity(props[i].type) \/ (partial /\ Get(s, k) = Undefined)
          THEN encodeProps(props, i + 1, s, partial)
          ELSE IF e.threw THEN e
          ELSE encodeProps(props, i + 1, Put(s, k, e.value), partial)

\* a.map(item.encode) from element i on
encodeItems(item, i, as) ==
  IF i > Len(as) THEN returned(Arr(as))
  ELSE LET e == encode(item, as[i])
       IN IF e.threw THEN e ELSE encodeItems(item, i + 1, [as EXCEPT ![i] = e.value])

\* codec.encode(a): the encoded value, or what encode threw
encode(codec, a) ==
  CASE useIdentity(codec) -> returned(a)
    [] codec.kind \in {"type", "partial"} ->
         encodeProps(codec.props, 1, a, codec.kind = "partial")
    [] codec.kind = "intersection" ->
         LET es == [i \in 1..Len(codec.types) |-> encode(codec.types[i], a)]
         IN IF \E i \in 1..Len(es) : es[i].threw
            THEN es[CHOOSE i \in 1..Len(es) : es[i].threw /\ \A j \in 1..(i - 1) : ~es[j].threw]
            ELSE returned(mergeAll(a, [i \in 1..Len(es) |-> es[i].value]))
    [] codec.kind = "array" -> encodeItems(codec.item, 1, a.a)
    [] codec.kind = "union" ->
         IF \E i \in 1..Len(codec.types) : is(codec.types[i], a)
         THEN LET i == CHOOSE i \in 1..Len(codec.types) :
                         is(codec.types[i], a) /\ \A j \in 1..(i - 1) : ~is(codec.types[j], a)
              IN encode(codec.types[i], a)
         ELSE threw(Error("no codec found to encode value in union type " \o codec.name))
    [] OTHER ->
         \* withDefault, crossValidate and withMessage hand on codec.encode;
         \* transform calls it
         encode(codec.codec, a)

(***************************************************************************)
(* Error formatting (validate.ts).                                         *)
(***************************************************************************)
\* the branded type names of TYPE_ERROR_INFO
TypeInfo(code, message, suggestion) ==
  [code |-> code, message |-> message, suggestion |-> Str(suggestion)]

TYPE_ERROR_INFO ==
  [Email |-> TypeInfo("INVALID_EMAIL", "Invalid email format",
       "Please provide a valid email address (e.g., user@example.com)"),
   UUID |-> TypeInfo("INVALID_UUID", "Invalid UUID format",
       "Please provide a valid UUID (e.g., 550e8400-e29b-41d4-a716-446655440000)"),
   URL |-> TypeInfo("INVALID_URL", "Invalid URL format",
       "Please provide a valid URL starting with http:// or https://"),
   Phone |-> TypeInfo("INVALID_PHONE", "Invalid phone number format",
       "Please provide a valid phone number (e.g., +1-234-567-8900)"),
   DateString |-> TypeInfo("INVALID_DATE", "Invalid date format",
       "Please provide a date in ISO 8601 format (e.g., 2024-01-15)"),
   DateTimeString |-> TypeInfo("INVALID_DATETIME", "Invalid datetime format",
       "Please provide a datetime in ISO 8601 format (e.g., 2024-01-15T10:30:00Z)"),
   IPv4 |-> TypeInfo("INVALID_IPV4", "Invalid IPv4 address",
       "Please provide a valid IPv4 address (e.g., 192.168.0.1)"),
   IPv6 |-> TypeInfo("INVALID_IPV6", "Invalid IPv6 address",
       "Please provide a valid IPv6 address (e.g., 2001:db8::ff00:42:8329)"),
   IP |-> TypeInfo("INVALID_IP", "Invalid IP address",
       "Please provide a valid IPv4 or IPv6 address"),
   Integer |-> TypeInfo("INVALID_INTEGER", "Value must be an integer",
       "Please provide a whole number without decimals"),
   PositiveNumber |-> TypeInfo("INVALID_POSITIVE_NUMBER", "Value must be a positive number",
       "Please provide a number greater than 0"),
   NonNegativeNumber |-> TypeInfo("INVALID_NON_NEGATIVE_NUMBER", "Value must be non-negative",
       "Please provide a number greater than or equal to 0"),
   PositiveInteger |-> TypeInfo("INVALID_POSITIVE_INTEGER", "Value must be a positive integer",
       "Please provide a whole number greater than 0"),
   Port |-> TypeInfo("INVALID_PORT", "Invalid port number",
       "Please provide a port number between 0 and 65535"),
   Percentage |-> TypeInfo("INVALID_PERCENTAGE", "Invalid percentage value",
       "Please provide a number between 0 and 100"),
   NonEmptyString |-> TypeInfo("INVALID_NON_EMPTY_STRING", "Value cannot be empty",
       "Please provide a non-empty string"),
   TrimmedString |-> TypeInfo("INVALID_TRIMMED_STRING",
       "Value cannot have leading or trailing whitespace",
       "Please remove leading and trailing spaces"),
   LowercaseString |-> TypeInfo("INVALID_LOWERCASE_STRING", "Value must be lowercase",
       "Please provide a lowercase string"),
   UppercaseString |-> TypeInfo("INVALID_UPPERCASE_STRING", "Value must be uppercase",
       "Please provide an uppercase string"),
   HexColor |-> TypeInfo("INVALID_HEX_COLOR", "Invalid hex color code",
       "Please provide a valid hex color (e.g., #ff0000 or #f00)"),
   Slug |-> TypeInfo("INVALID_SLUG", "Invalid slug format",
       "Please provide a URL-safe slug using lowercase letters, numbers, and hyphens"),
   Base64 |-> TypeInfo("INVALID_BASE64", "Invalid Base64 encoding",
       "Please provide a valid Base64 encoded string"),
   JWT |-> TypeInfo("INVALID_JWT", "Invalid JWT format",
       "Please provide a valid JSON Web Token")]

\* a JavaScript value used as a condition
Truthy(v) ==
  CASE v.t = "undefined" -> FALSE
    [] v.t = "null" -> FALSE
    [] v.t = "string" -> v.s # ""
    [] v.t = "number" -> v.n # 0
    [] v.t = "boolean" -> v.b
    [] OTHER -> TRUE

\* a ?? b
Coalesce(a, b) == IF a = Undefined \/ a = Null THEN b ELSE a

\* the message functions (value) => string handed to withMessage
MessageFunction(f, value) ==
  CASE f = "describeType" -> "Expected number, got " \o typeof(value)
    [] OTHER -> "Invalid value"

\* the generic result of getErrorInfo, without custom messages or the table
genericErrorInfo(expected, actualValue) ==
  IF actualValue = Undefined \/ actualValue = Null
  THEN [code |-> "REQUIRED", message |-> "Field is required",
        suggestion |-> Str("Please provide a value of type " \o expected)]
  ELSE [code |-> "INVALID_TYPE",
        message |-> "Expected " \o expected \o " but received "
                      \o (IF actualValue.t = "array" THEN "array" ELSE typeof(actualValue)),
        suggestion |-> Str("Please provide a valid " \o expected)]

\* a getErrorInfo that reports a missing value as REQUIRED before it looks at the table
getErrorInfoRequiredFirst(expected, actualValue, customMessages) ==
  IF actualValue = Undefined \/ actualValue = Null
  THEN genericErrorInfo(expected, actualValue)
  ELSE IF expected \in DOMAIN TYPE_ERROR_INFO THEN TYPE_ERROR_INFO[expected]
  ELSE genericErrorInfo(expected, actualValue)

\* a getErrorInfo that looks at the table before the custom messages
getErrorInfoTableFirst(expected, actualValue, customMessages) ==
  IF expected \in DOMAIN TYPE_ERROR_INFO THEN TYPE_ERROR_INFO[expected]
  ELSE genericErrorInfo(expected, actualValue)

getErrorInfo(expected, actualValue, customMessages) ==
  LET isRequired == actualValue = Undefined \/ actualValue = Null
      actualType ==
        IF actualValue = Null THEN "null"
        ELSE IF actualValue = Undefined THEN "undefined"
        ELSE IF actualValue.t = "array" THEN "array"
        ELSE typeof(actualValue)
  IN IF customMessages # Undefined /\ isRequired /\ Truthy(customMessages.required)
     THEN [code |-> Coalesce(customMessages.code, Str("REQUIRED")).s,
           message |-> customMessages.required.s,
           suggestion |-> customMessages.suggestion]
     ELSE IF customMessages # Undefined /\ ~isRequired /\ Truthy(customMessages.invalid)
     THEN [code |-> Coalesce(customMessages.code, Str("INVALID_FORMAT")).s,
           message |-> IF typeof(customMessages.invalid) = "function"
                       THEN MessageFunction(customMessages.invalid.fn, actualValue)
                       ELSE customMessages.invalid.s,
           suggestion |-> customMessages.suggestion]
     ELSE IF expected \in DOMAIN TYPE_ERROR_INFO
     THEN TYPE_ERROR_INFO[expected]
     ELSE IF isRequired
     THEN [code |-> "REQUIRED", message |-> "Field is required",
           suggestion |-> Str("Please provide a value of type " \o expected)]
     ELSE [code |-> "INVALID_TYPE",
           message |-> "Expected " \o expected \o " but received " \o actualType,
           suggestion |-> Str("Please provide a valid " \o expected)]

\* the longest array of the model's inputs
MaxLen == 2

\* /^\d+$/ on the keys of the model: property names and decimal indices
isArrayIndex(key) == key \in {ToString(n) : n \in 0..MaxLen}

RECURSIVE pathLoop(_, _, _)
\* the loop of getFieldPath over keys[i], ...
pathLoop(keys, i, path) ==
  IF i > Len(keys) THEN path
  ELSE pathLoop(keys, i + 1,
                IF isArrayIndex(keys[i]) THEN path \o "[" \o keys[i] \o "]"
                ELSE path \o "." \o keys[i])

\* the keys getFieldPath keeps: those after the root entry that are not empty
pathKeys(context) ==
  SelectSeq([i \in 1..(Len(context) - 1) |-> context[i + 1].key], LAMBDA key : key # "")

getFieldPath(context) ==
  LET keys == pathKeys(context)
  IN IF Len(keys) = 0 THEN "" ELSE pathLoop(keys, 2, keys[1])

getExpectedType(context) ==
  IF Len(context) = 0 \/ context[Len(context)].type.name = "" THEN "unknown"
  ELSE context[Len(context)].type.name

hasCustomMessage(codec) == "CUSTOM_MESSAGE_SYMBOL" \in DOMAIN codec

getCustomMessage(codec) ==
  IF hasCustomMessage(codec) THEN codec.CUSTOM_MESSAGE_SYMBOL ELSE Undefined

\* whether the ordered map (a sequence of entries) has an entry for field
MapHas(errorMap, field) == \E i \in 1..Len(errorMap) : errorMap[i].field = field

\* a formatError that reports the failure's own message when it has one
formatErrorOfMessage(error) ==
  LET field == IF getFieldPath(error.context) = "" THEN "root"
               ELSE getFieldPath(error.context)
      expected == getExpectedType(error.context)
      customMessages ==
        IF Len(error.context) > 0
        THEN getCustomMessage(error.context[Len(error.context)].type)
        ELSE Undefined
      errorInfo == getErrorInfo(expected, error.value, customMessages)
  IN [field |-> field,
      message |-> IF error.message # Undefined THEN error.message.s ELSE errorInfo.message,
      expected |-> expected, value |-> error.value, code |-> errorInfo.code,
      suggestion |-> errorInfo.suggestion]

\* the ValidationError formatErrors builds for one raw failure
formatError(error) ==
  LET field == IF getFieldPath(error.context) = "" THEN "root"
               ELSE getFieldPath(error.context)
      expected == getExpectedType(error.context)
      actualValue == error.value
      customMessages ==
        IF Len(error.context) > 0
        THEN getCustomMessage(error.context[Len(error.context)].type)
        ELSE Undefined
      errorInfo == getErrorInfo(expected, actualValue, customMessages)
  IN [field |-> field, message |-> errorInfo.message, expected |-> expected,
      value |-> actualValue, code |-> errorInfo.code, suggestion |-> errorInfo.suggestion]

RECURSIVE formatLoop(_, _, _)
\* a formatErrors that overwrites the entry of a path: the last failure wins
formatLoopLastWins(errors, i, errorMap) ==
  IF i > Len(errors) THEN errorMap
  ELSE LET e == formatError(errors[i])
       IN formatLoop(errors, i + 1,
                     IF MapHas(errorMap, e.field)
                     THEN [k \in 1..Len(errorMap) |->
                             IF errorMap[k].field = e.field THEN e ELSE errorMap[k]]
                     ELSE Append(errorMap, e))

\* the loop of formatErrors from errors[i] on; errorMap keeps insertion order
formatLoop(errors, i, errorMap) ==
  IF i > Len(errors) THEN errorMap
  ELSE formatLoop(errors, i + 1,
                  IF ~MapHas(errorMap, formatError(errors[i]).field)
                  THEN Append(errorMap, formatError(errors[i]))
                  ELSE errorMap)

formatErrors(errors) == formatLoop(errors, 1, <<>>)

(***************************************************************************)
(* The exception, the DTO classes and the facade.                          *)
(***************************************************************************)
BAD_REQUEST == 400

\* an exception that answers getErrors() for a string with the response's message
IoTsValidationExceptionOfString(errors) ==
  LET errorList == IF typeof(errors) = "string"
                   THEN <<[field |-> "unknown", message |-> errors.s]>>
                   ELSE errors.a
  IN [t |-> "IoTsValidationException",
      status |-> BAD_REQUEST,
      response |-> [statusCode |-> BAD_REQUEST, message |-> "Validation failed",
                    error |-> "Bad Request", errors |-> errorList],
      errors |-> IF typeof(errors) = "string"
                 THEN <<[field |-> "unknown", message |-> "Validation failed"]>>
                 ELSE errorList]

\* new IoTsValidationException(errors): errors is an array of ValidationError or a string
IoTsValidationException(errors) ==
  LET errorList == IF typeof(errors) = "string"
                   THEN <<[field |-> "unknown", message |-> errors.s]>>
                   ELSE errors.a
  IN [t |-> "IoTsValidationException",
      status |-> BAD_REQUEST,
      response |-> [statusCode |-> BAD_REQUEST, message |-> "Validation failed",
                    error |-> "Bad Request", errors |-> errorList],
      errors |-> errorList]

getErrors(exception) == exception.errors

\* HttpException.getResponse() and getStatus(): what the constructor handed to super
getResponse(exception) == exception.response

getStatus(exception) == exception.status

\* the class AugmentedIoTsDto that createIoTsDto declares for a codec
AugmentedIoTsDto(codec) == [IO_TS_DTO_SYMBOL |-> TRUE, codec |-> codec]

\* whether x is an io-ts Type: an object with a decode function
IsType(x) == "kind" \in DOMAIN x

\* createIoTsDto(codec): the class it returns, or the Error it throws
createIoTsDto(codec) ==
  IF ~IsType(codec) THEN threw(Error("Invalid codec: must be a valid io-ts Type"))
  ELSE returned(AugmentedIoTsDto(codec))

\* the TypeError the runtime throws for an operation on a value that has no properties
TypeError(message) == [t |-> "TypeError", message |-> message]

\* whether codec.props is a field map: it is undefined for any object but a record codec
HasProps(codec) == "props" \in DOMAIN codec

\* codec.props cannot be read at all when codec is undefined or null
Nullish(x) == x \in {Undefined, Null}

\* key in props
In(key, props) == \E i \in 1..Len(props) : props[i].key = key

\* props[key]
PropOf(key, props) == props[CHOOSE i \in 1..Len(props) : props[i].key = key]

\* whether keys[n] occurs earlier in keys
Seen(keys, n) == \E m \in 1..(n - 1) : keys[m] = keys[n]

RECURSIVE pickLoop(_, _, _)
\* for (const key of keys) if (key in codec.props) pickedProps[key] = codec.props[key]:
\* an object keeps its keys in the order of their first assignment
pickLoop(codecProps, keys, n) ==
  IF n > Len(keys) THEN <<>>
  ELSE IF In(keys[n], codecProps) /\ ~Seen(keys, n)
       THEN <<PropOf(keys[n], codecProps)>> \o pickLoop(codecProps, keys, n + 1)
       ELSE pickLoop(codecProps, keys, n + 1)

RECURSIVE omitLoop(_, _, _)
\* for (const key in codec.props) if (!keysSet.has(key)) omittedProps[key] = codec.props[key]
omitLoop(codecProps, keys, i) ==
  IF i > Len(codecProps) THEN <<>>
  ELSE IF \E n \in 1..Len(keys) : keys[n] = codecProps[i].key
       THEN omitLoop(codecProps, keys, i + 1)
       ELSE <<codecProps[i]>> \o omitLoop(codecProps, keys, i + 1)

createPartialDto(codec) ==
  IF Nullish(codec) THEN threw(TypeError("Cannot read properties of undefined (reading 'props')"))
  ELSE IF ~HasProps(codec)
       THEN threw(TypeError("Cannot convert undefined or null to object"))
       ELSE createIoTsDto(t_partial(codec.props))

createPickDto(codec, keys) ==
  IF Nullish(codec) /\ Len(keys) > 0
    THEN threw(TypeError("Cannot read properties of undefined (reading 'props')"))
  ELSE IF Nullish(codec) THEN createIoTsDto(t_type(<<>>))
  ELSE IF ~HasProps(codec)
       THEN IF Len(keys) > 0
            THEN threw(TypeError("Cannot use 'in' operator to search for a key in undefined"))
            ELSE createIoTsDto(t_type(<<>>))
       ELSE createIoTsDto(t_type(pickLoop(codec.props, keys, 1)))

\* createOmitDto with the test of the key set inverted
createOmitDtoKeepsKeys(codec, keys) == createPickDto(codec, keys)

createOmitDto(codec, keys) ==
  IF Nullish(codec) THEN threw(TypeError("Cannot read properties of undefined (reading 'props')"))
  ELSE IF ~HasProps(codec)
       \* for..in over undefined runs no iteration
       THEN createIoTsDto(t_type(<<>>))
       ELSE createIoTsDto(t_type(omitLoop(codec.props, keys, 1)))

createIntersectionDto(codecA, codecB) ==
  \* t.intersection reads the name of each codec
  IF Nullish(codecA) \/ Nullish(codecB)
    THEN threw(TypeError("Cannot read properties of undefined (reading 'name')"))
    ELSE createIoTsDto(t_intersection(<<codecA, codecB>>))

\* class X extends dto {}
Extends(dto) == [prototype |-> dto]

RECURSIVE isIoTsDto(_)
isIoTsDto(obj) ==
  \/ /\ "IO_TS_DTO_SYMBOL" \in DOMAIN obj
     /\ obj.IO_TS_DTO_SYMBOL = TRUE
     /\ "codec" \in DOMAIN obj
     /\ "kind" \in DOMAIN obj.codec
  \/ /\ "prototype" \in DOMAIN obj
     /\ isIoTsDto(obj.prototype)

RECURSIVE StaticCodec(_)
\* obj.codec, looked up along the prototype chain
StaticCodec(obj) == IF "codec" \in DOMAIN obj THEN obj.codec ELSE StaticCodec(obj.prototype)

\* what a call did: it returned a value or threw one
Returned(v) == [kind |-> "return", value |-> v]

Thrown(e) == [kind |-> "throw", value |-> e]

decodeAndThrow(value, codecOrDto) ==
  LET codec == IF isIoTsDto(codecOrDto) THEN StaticCodec(codecOrDto) ELSE codecOrDto
      decodedValue == decode(codec, value)
  IN CASE decodedValue.tag = "Throw" -> Thrown(decodedValue.thrown)
       [] decodedValue.tag = "Left" ->
            Thrown(IoTsValidationException(Arr(formatErrors(decodedValue.left))))
       [] OTHER -> Returned(decodedValue.right)

(***************************************************************************)
(* The validation pipe (pipe.ts).                                          *)
(***************************************************************************)
DEFAULT_OPTIONS ==
  Obj([allowPassthrough |-> Bool(FALSE),
       validateTypes |-> Arr(<<Str("body"), Str("query"), Str("param")>>),
       coerceQueryStrings |-> Bool(FALSE)])

\* Number(s) for the strings of the model: a numeral gives its number, the empty and
\* the blank string give 0, any other string gives NaN
Numerals ==
  [s \in {"80", "0", "-1", "70000", "", " ", "3.5"} |->
     CASE s = "80" -> Num(80)
       [] s = "-1" -> Num(-1)
       [] s = "70000" -> Num(70000)
       [] s = "3.5" -> Real(3, 5)
       [] OTHER -> Num(0)]

Number(s) == IF s \in DOMAIN Numerals THEN Numerals[s] ELSE NaN

coerceValue(value) ==
  IF typeof(value) # "string" THEN value
  ELSE IF value.s = "true" THEN Bool(TRUE)
  ELSE IF value.s = "false" THEN Bool(FALSE)
  ELSE IF value.s = "null" THEN Null
  ELSE IF value.s = "undefined" THEN Undefined
  ELSE IF value.s # "" /\ ~isNaN(Number(value.s)) THEN Number(value.s)
  ELSE value

RECURSIVE coerceObject(_)
coerceObject(obj) ==
  IF obj = Null \/ obj = Undefined THEN obj
  ELSE IF obj.t = "array" THEN Arr([i \in 1..Len(obj.a) |-> coerceObject(obj.a[i])])
  ELSE IF typeof(obj) = "object" THEN Obj([key \in DOMAIN obj.o |-> coerceObject(obj.o[key])])
  ELSE coerceValue(obj)

\* a constructor function that is no DTO class: String, Number, ..., or a class of the
\* application
Class(name) == [class |-> name]

\* whether the first argument of the constructor is an options object: a plain
\* object without decode that is no DTO class
IsOptions(x) == "t" \in DOMAIN x /\ x.t = "object"

\* { ...DEFAULT_OPTIONS, ...options }: a key of options wins, also when its value is
\* undefined
Spread(defaults, options) ==
  IF options = Undefined THEN defaults
  ELSE Obj([k \in DOMAIN defaults.o \cup DOMAIN options.o |->
             IF k \in DOMAIN options.o THEN options.o[k] ELSE defaults.o[k]])

\* new IoTsValidationPipe(codecOrDtoOrOptions, options)
IoTsValidationPipe(codecOrDtoOrOptions, options) ==
  IF IsOptions(codecOrDtoOrOptions)
  THEN [codecOrDto |-> Undefined, options |-> Spread(DEFAULT_OPTIONS, codecOrDtoOrOptions)]
  ELSE [codecOrDto |-> codecOrDtoOrOptions, options |-> Spread(DEFAULT_OPTIONS, options)]

isPrimitiveType(metatype) ==
  \/ metatype = Undefined
  \/ metatype \in {Class("String"), Class("Boolean"), Class("Number"), Class("Array"),
                   Class("Object")}

\* validateTypes.includes(type)
includes(array, v) == \E i \in 1..Len(array.a) : array.a[i] = v

\* a pipe that skips the argument types validateTypes lists
isSkippedWhenListed(this, metadata) ==
  /\ Get(this.options, "validateTypes") # Undefined
  /\ includes(Get(this.options, "validateTypes"), Str(metadata.type))

\* the argument type is not one the pipe validates
isSkipped(this, metadata) ==
  /\ Get(this.options, "validateTypes") # Undefined
  /\ ~includes(Get(this.options, "validateTypes"), Str(metadata.type))

\* a pipe that coerces the arguments of every type
isCoercedEverywhere(this, metadata) == Get(this.options, "coerceQueryStrings") = Bool(TRUE)

\* query string coercion is enabled and applies to the argument
isCoerced(this, metadata) ==
  /\ Get(this.options, "coerceQueryStrings") = Bool(TRUE)
  /\ metadata.type \in {"query", "param"}

\* pipe.transform(value, metadata): what the call did, and whether it wrote a warning
IoTsValidationPipeTransform(this, value, metadata) ==
  LET processedValue == IF isCoerced(this, metadata) THEN coerceObject(value) ELSE value
      metatype == metadata.metatype
      allowPassthrough == Get(this.options, "allowPassthrough") = Bool(TRUE)
  IN IF isSkipped(this, metadata)
     THEN [outcome |-> Returned(value), warned |-> FALSE]
     ELSE IF this.codecOrDto # Undefined
     THEN [outcome |-> decodeAndThrow(processedValue, this.codecOrDto), warned |-> FALSE]
     ELSE IF metatype = Undefined \/ ~isIoTsDto(metatype)
     THEN [outcome |-> Returned(processedValue),
           warned |-> /\ ~allowPassthrough
                      /\ ~isPrimitiveType(metatype)
                      /\ metatype # Undefined]
     ELSE [outcome |-> decodeAndThrow(processedValue, StaticCodec(metatype)),
           warned |-> FALSE]

(***************************************************************************)
(* The OpenAPI conversion (io-ts-to-openapi.ts).  The visited set is keyed  *)
(* by object identity, so the types of a conversion are the objects of a    *)
(* store: types[id] is the type object id, and it names the types it is     *)
(* built of by their ids.                                                   *)
(***************************************************************************)
StringType == [tag |-> "StringType", name |-> "string"]

NumberType == [tag |-> "NumberType", name |-> "number"]

NullType == [tag |-> "NullType", name |-> "null"]

UndefinedType == [tag |-> "UndefinedType", name |-> "undefined"]

ArrayType(name, type) == [tag |-> "ArrayType", name |-> name, type |-> type]

\* a props object, by the sequence of its entries
Entries(props) == [t |-> "object", entries |-> props]

\* props is a props object, or Null
InterfaceType(name, props) == [tag |-> "InterfaceType", name |-> name, props |-> props]

PartialType(name, props) == [tag |-> "PartialType", name |-> name, props |-> props]

UnionType(name, types) == [tag |-> "UnionType", name |-> name, types |-> types]

RefinementType(name, type) == [tag |-> "RefinementType", name |-> name, type |-> type]

RecursiveType(name) == [tag |-> "RecursiveType", name |-> name]

\* a Type of the caller's own class
CustomType(name) == [tag |-> "Type", name |-> name]

BRANDED_TYPE_FORMATS ==
  [Email |-> Obj([type |-> Str("string"), format |-> Str("email")]),
   DateString |-> Obj([type |-> Str("string"), format |-> Str("date")]),
   Port |-> Obj([type |-> Str("integer"), minimum |-> Num(0), maximum |-> Num(65535)])]

\* Object.assign(target, source)
ObjectAssign(target, source) ==
  Obj([k \in DOMAIN target.o \cup DOMAIN source.o |->
        IF k \in DOMAIN source.o THEN source.o[k] ELSE target.o[k]])

\* { $ref: `#/components/schemas/${name}` }
Reference(name) == Put(EmptyObj, "$ref", Str("#/components/schemas/" \o name))

\* one call of ioTsToOpenAPI as the log keeps it: the set when it began and when
\* it ended, and the way it ended
Visit(ioTsType, before, after, exit) ==
  [ioTsType |-> ioTsType, before |-> before, after |-> after, exit |-> exit]

\* what a call, or a part of it, did: value is what it returned unless it threw
Converted(schema, thrown, visited, log, exit) ==
  [value |-> schema, threw |-> thrown, visited |-> visited, log |-> log, exit |-> exit]

\* a finally block that leaves the type in the set
finallyKeeps(visited, ioTsType) == visited

\* finally { visited.delete(ioTsType) }
finally(visited, ioTsType) == visited \ {ioTsType}

RECURSIVE ioTsToOpenAPI(_, _, _, _)
RECURSIVE convertEach(_, _, _, _, _)
\* the calls ioTsToOpenAPI(type, visited) of a map or a loop over ids[i], ...,
\* in order, up to the first that throws; value is the array of the results
convertEach(types, ids, i, visited, log) ==
  IF i > Len(ids) THEN Converted(<<>>, FALSE, visited, log, "return")
  ELSE LET first == ioTsToOpenAPI(types, ids[i], visited, log)
       IN IF first.threw THEN first
          ELSE LET rest == convertEach(types, ids, i + 1, first.visited, first.log)
               IN IF rest.threw THEN rest
                  ELSE [rest EXCEPT !.value = <<first.value>> \o @]

\* the try block of ioTsToOpenAPI, entered with ioTsType in visited
tryBlock(types, ioTsType, visited, log) ==
  LET T == types[ioTsType]
      done(object) == Converted(object, FALSE, visited, log, "return")
  IN CASE T.name # "" /\ T.name \in DOMAIN BRANDED_TYPE_FORMATS ->
            Converted(ObjectAssign(EmptyObj, BRANDED_TYPE_FORMATS[T.name]), FALSE, visited,
                      log, "brand")
       [] OTHER ->
     CASE T.tag = "StringType" -> done(Obj([type |-> Str("string")]))
       [] T.tag = "NumberType" -> done(Obj([type |-> Str("number")]))
       [] T.tag \in {"NullType", "UndefinedType"} -> done(Obj([nullable |-> Bool(TRUE)]))
       [] T.tag = "ArrayType" ->
            LET items == ioTsToOpenAPI(types, T.type, visited, log)
            IN IF items.threw THEN items
               ELSE [items EXCEPT !.value = Obj([type |-> Str("array"), items |-> items.value]),
                                  !.exit = "return"]
       [] T.tag \in {"InterfaceType", "PartialType"} ->
            \* Object.entries(null) throws a TypeError
            IF T.props = Null THEN Converted(TypeError("Cannot convert undefined or null to object"), TRUE,
                                       visited, log, "throw")
            ELSE LET each == convertEach(types, [n \in 1..Len(T.props.entries) |-> T.props.entries[n].type],
                                         1, visited, log)
                     properties == Obj([k \in {T.props.entries[n].key : n \in 1..Len(T.props.entries)} |->
                                         each.value[CHOOSE n \in 1..Len(T.props.entries) :
                                                      T.props.entries[n].key = k]])
                     required == IF T.tag = "InterfaceType"
                                 THEN [n \in 1..Len(T.props.entries) |-> Str(T.props.entries[n].key)]
                                 ELSE <<>>
                     object == Obj([type |-> Str("object"), properties |-> properties])
                 IN IF each.threw THEN [each EXCEPT !.exit = "throw"]
                    ELSE [each EXCEPT !.exit = "return",
                                      !.value = IF Len(required) = 0 THEN object
                                                ELSE Put(object, "required", Arr(required))]
       [] T.tag = "UnionType" ->
            LET nonNullableTypes ==
                  SelectSeq(T.types, LAMBDA type :
                              types[type].tag \notin {"UndefinedType", "NullType", "VoidType"})
                hasNullable == Len(nonNullableTypes) < Len(T.types)
                orNullable(object) == IF hasNullable THEN Put(object, "nullable", Bool(TRUE))
                                    ELSE object
                each == convertEach(types, nonNullableTypes, 1, visited, log)
            IN IF Len(nonNullableTypes) = 0 THEN done(Obj([nullable |-> Bool(TRUE)]))
               ELSE IF each.threw THEN [each EXCEPT !.exit = "throw"]
               ELSE IF Len(nonNullableTypes) = 1
               THEN [each EXCEPT !.value = orNullable(ObjectAssign(EmptyObj, each.value[1]))]
               ELSE [each EXCEPT !.value = orNullable(Obj([oneOf |-> Arr(each.value)]))]
       [] T.tag = "RefinementType" ->
            LET baseSchema == ioTsToOpenAPI(types, T.type, visited, log)
                object == ObjectAssign(EmptyObj, baseSchema.value)
            IN IF baseSchema.threw THEN baseSchema
               ELSE [baseSchema EXCEPT
                       !.exit = "return",
                       !.value = IF T.name # "" /\ T.name \in DOMAIN BRANDED_TYPE_FORMATS
                                 THEN ObjectAssign(object, BRANDED_TYPE_FORMATS[T.name])
                                 ELSE IF T.name # ""
                                 THEN Put(object, "description",
                                          Str("Validated type: " \o T.name))
                                 ELSE object]
       [] T.tag = "RecursiveType" -> Converted(Reference(T.name), FALSE, visited, log, "$ref")
       [] OTHER -> done(EmptyObj)

\* ioTsToOpenAPI(ioTsType, visited): the schema, the set as the call leaves it and
\* the calls made, this one last
ioTsToOpenAPI(types, ioTsType, visited, log) ==
  IF ioTsType \in visited
  THEN Converted(Reference(types[ioTsType].name), FALSE, visited,
                 Append(log, Visit(ioTsType, visited, visited, "visited")), "visited")
  ELSE LET tried == tryBlock(types, ioTsType, visited \cup {ioTsType}, log)
           after == finally(tried.visited, ioTsType)
       IN Converted(tried.value, tried.threw, after,
                    Append(tried.log, Visit(ioTsType, visited, after, tried.exit)),
                    tried.exit)

(***************************************************************************)
(* The codecs and the inputs of the model.                                 *)
(***************************************************************************)
Prop(key, type) == [key |-> key, type |-> type]

\* the message bindings handed to withMessage
Messages ==
  {CustomErrorMessages(Str("Please enter a valid value"), Str("Value is required"),
                       Undefined, Undefined),
   CustomErrorMessages(Str("Please enter a valid value"), Undefined,
                       Str("INVALID_FORMAT"), Str("Use only alphanumeric characters")),
   CustomErrorMessages(Undefined, Str("Value is required"), Undefined, Undefined),
   CustomErrorMessages(Undefined, Str("Value is required"), Str("INVALID_FORMAT"),
                       Str("Fill in the field")),
   CustomErrorMessages(MessageFn("describeType"), Undefined, Str("UNKNOWN"), Undefined),
   MessageFn("describeType")}

Primitives == {t_string, t_number, t_boolean}

Brands == {Email, Port, Positive}

\* codecs without fields or elements
Leaves == Primitives \cup Brands

\* the default values of the model: some are not values of the codec they are given to
Defaults == {Str("a@b.co"), Num(80), Str("bad")}

Validators == {"noErrors", "reject", "twoErrors", "throws"}

Transformers == {"toLowerCase", "toDate", "toNone", "throwsString", "throwsError"}

\* one application of a combinator to S
Wrapped(S) ==
  {optional(S), nullable(S)}
    \cup {withDefault(S, d) : d \in Defaults}
    \cup {crossValidate(S, f) : f \in Validators}
    \cup {transform(S, "toNone"), transform(S, "throwsError")}
    \cup {withMessage(S, m) : m \in Messages}

\* the schemas optional, nullable and withDefault are applied to
Schemas ==
  Leaves \cup {t_null, t_undefined}
    \cup UNION {Wrapped(S) : S \in {t_string, Email, Port}}
    \cup {transform(t_null, "toNone"), transform(t_undefined, "toNone"),
          transform(t_string, "toLowerCase"), transform(t_string, "toDate"),
          transform(Email, "throwsString")}

User == t_type(<<Prop("name", t_string), Prop("age", t_number)>>)

Address == t_type(<<Prop("street", t_string)>>)

Person == t_type(<<Prop("addresses", t_array(Address))>>)

Company == t_type(<<Prop("employees", t_array(Person))>>)

Item == t_type(<<Prop("name", t_string), Prop("price", t_number)>>)

Order == t_type(<<Prop("items", t_array(Item))>>)

PasswordReset == t_type(<<Prop("password", t_string), Prop("confirmPassword", t_string)>>)

\* the schemas of a record's field
FieldCodecs ==
  Leaves \cup {Address, t_array(t_string), nullable(t_string), optional(t_string),
               nullable(Email)}
    \cup {withMessage(S, m) : S \in {t_string, Email}, m \in Messages}
    \cup {withDefault(t_string, Str("a@b.co")), transform(t_string, "toLowerCase"),
          crossValidate(t_string, "reject"), crossValidate(t_string, "throws")}

\* records that declare the field f beside others, in both orders
Records ==
  {User, Order, Company, PasswordReset,
   t_type(<<Prop("age", t_number), Prop("name", t_string)>>),
   t_type(<<Prop("id", Email), Prop("port", Port), Prop("name", t_string)>>),
   t_type(<<Prop("name", t_string), Prop("port", Port), Prop("id", Email)>>)}
    \cup {t_type(<<Prop("id", t_number), Prop("f", F)>>) : F \in FieldCodecs}
    \cup {t_type(<<Prop("f", F), Prop("id", t_number)>>) : F \in FieldCodecs}

\* the record and the partial record that the intersection DTO joins
Contact == t_type(<<Prop("email", Email)>>)

Extra == t_partial(<<Prop("age", t_number)>>)

Named == t_type(<<Prop("name", t_string), Prop("email", Email)>>)

\* a record with a date
Event == t_type(<<Prop("title", t_string), Prop("date", DateString)>>)

Intersections == {t_intersection(<<Contact, Extra>>), t_intersection(<<Named, Contact>>)}

Arrays ==
  {t_array(t_string), t_array(Port), t_array(Item), t_array(t_array(t_string)),
   t_array(optional(t_string))}

Codecs ==
  Schemas
    \cup UNION {{optional(S), nullable(S)} : S \in Schemas}
    \cup {withDefault(S, d) : S \in {optional(t_string), nullable(t_string), User}, d \in {Null, Num(80)}}
    \cup Records \cup Arrays
    \cup {crossValidate(PasswordReset, f) : f \in Validators \cup {"passwordsMatch"}}
    \cup {optional(User), nullable(User), withMessage(User, MessageFn("describeType"))}
    \cup {transform(crossValidate(t_string, "throws"), "toNone")}
    \cup Intersections \cup {Extra, t_partial(User.props)}
    \cup {DateString, Event}

\* what decodeAndThrow is handed: a codec, a DTO class or a class extending one
\* the codecs DTO classes are made of
DtoCodecs == {User, Email, Order} \cup {crossValidate(PasswordReset, f) : f \in Validators}

CodecsOrDtos ==
  Codecs \cup {createIoTsDto(C).value : C \in DtoCodecs}
    \cup {Extends(createIoTsDto(C).value) : C \in DtoCodecs}
    \cup {createIntersectionDto(Contact, Extra).value, createPartialDto(User).value,
          createPickDto(Named, <<"email">>).value, createOmitDto(Named, <<"email">>).value}

\* the fields of a record, a partial record or an intersection of them
AllProps(codec) ==
  IF codec.kind = "intersection" THEN codec.types[1].props \o codec.types[2].props
  ELSE codec.props

\* the decimal digits of n, width of them
Digits(n, width) ==
  [i \in 1..width |->
     LET d == CASE i = width -> n % 10
                [] i = width - 1 -> (n \div 10) % 10
                [] i = width - 2 -> (n \div 100) % 10
                [] OTHER -> (n \div 1000) % 10
     IN CHOOSE c \in DOMAIN DigitValue : DigitValue[c] = d]

\* the text YYYY-MM-DD of three numbers, calendar date or not
DateText(year, month, day) ==
  Text(Digits(year, 4) \o <<"-">> \o Digits(month, 2) \o <<"-">> \o Digits(day, 2))

RECURSIVE Sample(_)
\* a value the codec accepts
Sample(codec) ==
  CASE codec.kind = "string" -> Str("a@b.co")
    [] codec.kind = "number" -> Num(80)
    [] codec.kind = "boolean" -> Bool(TRUE)
    [] codec.kind = "null" -> Null
    [] codec.kind = "undefined" -> Undefined
    [] codec.kind \in {"type", "partial", "intersection"} ->
         Obj([k \in {AllProps(codec)[i].key : i \in 1..Len(AllProps(codec))} |->
               Sample(PropOf(k, AllProps(codec)).type)])
    [] codec.kind = "array" -> Arr(<<Sample(codec.item)>>)
    [] codec.kind = "union" -> Sample(codec.types[1])
    [] codec.kind = "brand" /\ codec.name = "DateString" -> DateText(2024, 2, 29)
    [] OTHER -> Sample(codec.codec)

\* the values that are neither objects nor arrays
Atoms ==
  {Undefined, Null, Str("a@b.co"), Str("A@B.CO"), Str("bad"), Num(80), Num(0), Num(70000),
   Bool(TRUE)}

\* the numbers around the bounds of a port, and numbers that are no integers
PortNumbers ==
  {Num(0), Num(1), Num(65535), Num(-1), Num(65536), Real(80, 5), Real(0, 5), Real(-1, 5),
   Real(65535, 5), Real(65534, 5), NaN}

\* years of both kinds of century and of both kinds of February
Years == {1900, 2000, 2023, 2024}

\* the texts of the dates around the ends of the months, and beyond them
DateTexts ==
  {DateText(y, m, d) : y \in Years, m \in {0, 1, 2, 4, 12, 13},
                       d \in {0, 1, 28, 29, 30, 31, 32}}

\* texts of other forms: short fields, other orders and separators, more text
OtherTexts ==
  {Text(<<>>),
   Text(<<"2", "0", "2", "4", "-", "1", "-", "1", "5">>),
   Text(<<"2", "0", "2", "4", "-", "0", "1", "-", "5">>),
   Text(<<"0", "1", "-", "1", "5", "-", "2", "0", "2", "4">>),
   Text(<<"2", "0", "2", "4", "/", "0", "1", "/", "1", "5">>),
   Text(<<"1", "5", "/", "0", "1", "/", "2", "0", "2", "4">>),
   Text(<<"n", "o", "t", "-", "a", "-", "d", "a", "t", "e">>),
   Text(<<"2", "0", "2", "4", "-", "0", "1", "-", "1", "5", "T">>),
   Text(<<" ", "2", "0", "2", "4", "-", "0", "1", "-", "1", "5">>),
   Text(<<"2", "0", "2", "4", "-", "0", "1", "-", "1", "a">>),
   Text(<<"2", "0", "2", "4", "-", "0", "1", "-", "1", "5", "-", "0", "1">>)}

\* the atoms tried inside objects and arrays
FewAtoms == {Undefined, Null, Str("a@b.co"), Str("bad"), Num(80), Num(70000)}

RECURSIVE Inputs(_, _)
RECURSIVE Objects(_, _, _)
\* the objects with any of the properties props[i], ... present, each with any of its inputs
Objects(props, i, depth) ==
  IF i > Len(props) THEN {EmptyObj}
  ELSE LET rest == Objects(props, i + 1, depth)
       IN rest \cup {Put(o, props[i].key, v) : o \in rest, v \in Inputs(props[i].type, depth)}

\* the inputs tried for a codec that sits depth levels below the decoded value
Inputs(codec, depth) ==
  CASE codec.kind \in {"type", "partial", "intersection"} ->
         {Undefined, Str("bad")} \cup Objects(AllProps(codec), 1, depth + 1)
    [] codec.kind = "array" ->
         \* arrays of up to MaxLen elements, all of them valid but at most one
         {Undefined, Str("bad"), Arr(<<>>)}
           \cup {Arr([i \in 1..n |-> IF i = j THEN e ELSE Sample(codec.item)]) :
                   <<n, j>> \in {x \in (1..MaxLen) \X (1..MaxLen) : x[2] <= x[1]},
                   e \in Inputs(codec.item, depth + 1)}
    [] codec.kind = "union" ->
         UNION {Inputs(codec.types[i], depth) : i \in 1..Len(codec.types)}
    [] codec.kind \in {"withDefault", "crossValidate", "transform", "withMessage"} ->
         {Undefined, Null} \cup Inputs(codec.codec, depth)
    [] codec.kind = "brand" /\ codec.name = "Port" ->
         IF depth = 0 THEN Atoms \cup PortNumbers
         ELSE FewAtoms \cup {Num(-1), Real(80, 5)}
    [] codec.kind = "brand" /\ codec.name = "DateString" ->
         IF depth = 0
         THEN {Undefined, Null, Num(80), Bool(TRUE)} \cup DateTexts \cup OtherTexts
         ELSE {Undefined, Num(80), DateText(2024, 2, 29), DateText(2023, 2, 29),
               DateText(2024, 4, 31), Text(<<"2", "0", "2", "4", "-", "1", "-", "1", "5">>)}
    [] OTHER -> IF depth = 0 THEN Atoms ELSE FewAtoms

\* the type objects of the conversions.  7 and 8 use one object in sibling
\* positions; 10 is a t.recursion type; 13 and 24 hold themselves, by a props
\* object or a type field assigned after construction; 15 is an object whose
\* props are null
Types ==
  <<StringType, NumberType, NullType, UndefinedType,
    RefinementType("Email", 1),
    RefinementType("Positive", 2),
    InterfaceType("Address", Entries(<<Prop("street", 1), Prop("city", 1)>>)),
    InterfaceType("Person", Entries(<<Prop("home", 7), Prop("work", 7), Prop("email", 5),
                                      Prop("backup", 5), Prop("age", 6)>>)),
    ArrayType("Array<Person>", 8),
    RecursiveType("Category"),
    InterfaceType("CategoryNode", Entries(<<Prop("name", 1), Prop("children", 12)>>)),
    ArrayType("Array<Category>", 10),
    InterfaceType("Linked", Entries(<<Prop("value", 1), Prop("next", 13),
                                      Prop("again", 13)>>)),
    ArrayType("Array<Linked>", 13),
    InterfaceType("Broken", Null),
    InterfaceType("Form", Entries(<<Prop("a", 1), Prop("b", 15), Prop("c", 1)>>)),
    ArrayType("Array<Form>", 16),
    UnionType("(string | null)", <<1, 3>>),
    UnionType("(string | number | undefined)", <<1, 2, 4>>),
    UnionType("(null | undefined)", <<3, 4>>),
    PartialType("Partial<Query>", Entries(<<Prop("a", 18), Prop("b", 19), Prop("c", 20),
                                            Prop("d", 18)>>)),
    CustomType("Custom"),
    UnionType("(Array<Form> | string)", <<17, 1>>),
    ArrayType("Array<Looped>", 25),
    InterfaceType("Looped", Entries(<<Prop("items", 24)>>))>>

\* the sets a caller hands over: none, which is a new set, or a set of its own
VisitedSets == {{}, {1}, {7}, {13}, {1, 8}}

\* the longest key list handed to createPickDto and createOmitDto
MaxKeys == 2

\* field names, of the bases and of none of them
KeyNames == {"name", "email", "age", "zip"}

KeyLists == UNION {[1..n -> KeyNames] : n \in 0..MaxKeys}

\* what the DTO utilities are handed as their base: record codecs, a partial record,
\* codecs without a field map, and no codec at all
Bases == {User, Named, Contact, Extra, t_string, Email, t_array(t_string), Undefined}

\* what createIoTsDto is handed as its codec
Arguments == {Undefined, Null, Str("User"), EmptyObj, User, t_string, Email}

Build(fn, codec, other, keys) == [fn |-> fn, codec |-> codec, other |-> other, keys |-> keys]

Calls ==
  {Build("createIoTsDto", c, Undefined, <<>>) : c \in Arguments}
    \cup {Build("createPartialDto", c, Undefined, <<>>) : c \in Bases}
    \cup {Build(fn, c, Undefined, keys) :
            fn \in {"createPickDto", "createOmitDto"}, c \in Bases, keys \in KeyLists}
    \cup {Build("createIntersectionDto", a, b, <<>>) : a \in Bases, b \in Bases}

\* schemas that several calls share, with an array, an object and a string as default
SharedSchemas ==
  {withDefault(t_array(t_string), Arr(<<>>)),
   withDefault(t_type(<<Prop("x", t_number)>>), Obj([x |-> Num(0)])),
   withDefault(t_string, Str("a@b.co"))}

\* the inputs of the calls on a shared schema
SharedInputs(schema) == {Undefined, Sample(schema.codec), Str("bad")}

\* what a caller can turn a value it holds into: push onto an array, assign a
\* property of an object; a primitive cannot be changed
Mutations(v) ==
  CASE v.t = "array" ->
         IF Len(v.a) < MaxLen THEN {Arr(Append(v.a, e)) : e \in {Str("a@b.co"), Num(80)}}
         ELSE {}
    [] v.t = "object" -> {Put(v, "x", e) : e \in {Num(80), Str("bad")}} \ {v}
    [] OTHER -> {}

\* the codec and the DTO class of the paginated queries
Pagination == t_type(<<Prop("page", t_number), Prop("active", t_boolean)>>)

PaginationDto == createIoTsDto(Pagination).value

\* the options objects handed to the pipe's constructor
OptionObjects ==
  {EmptyObj,
   Obj([allowPassthrough |-> Bool(TRUE)]),
   Obj([coerceQueryStrings |-> Bool(TRUE)]),
   Obj([validateTypes |-> Arr(<<Str("body")>>)]),
   Obj([validateTypes |-> Arr(<<Str("body")>>), coerceQueryStrings |-> Bool(TRUE)]),
   Obj([validateTypes |-> Undefined, coerceQueryStrings |-> Bool(TRUE)]),
   Obj([validateTypes |-> Arr(<<Str("query"), Str("custom")>>),
        coerceQueryStrings |-> Bool(TRUE), allowPassthrough |-> Bool(TRUE)])}

\* the pipes: without arguments, with options, with a codec or DTO class and options
Pipes ==
  {IoTsValidationPipe(Undefined, Undefined)}
    \cup {IoTsValidationPipe(o, Undefined) : o \in OptionObjects}
    \cup {IoTsValidationPipe(c, o) :
            c \in {Pagination, PaginationDto}, o \in OptionObjects \cup {Undefined}}

\* ArgumentMetadata: the argument's type and the class it is declared with
Metadata ==
  [type : {"body", "query", "param", "custom"},
   metatype : {Undefined, Class("String"), Class("RegularDto"), PaginationDto,
               Extends(PaginationDto)}]

\* the values handed to the pipe
PipeValues ==
  {Undefined, Null, Str("test"), Str("80"), Str("true"),
   Obj([page |-> Str("80"), active |-> Str("true")]),
   Obj([page |-> Num(80), active |-> Bool(TRUE)]),
   Obj([page |-> Str("3.5"), active |-> Str("false")]),
   Obj([page |-> Str(" "), active |-> Str("null")]),
   Obj([page |-> Str("bad"), active |-> Str("undefined")]),
   Obj([any |-> Str("data")]),
   Obj([page |-> Num(80), active |-> Bool(TRUE), tags |-> Arr(<<Str("0"), Str("a@b.co")>>),
        nested |-> Obj([limit |-> Str("70000")])])}

(***************************************************************************)
(* Raw failure lists handed to formatErrors directly.                      *)
(***************************************************************************)
MaxErrors == 3

RECURSIVE contextOf(_, _, _)
\* a context with the given keys below the root, ending at a value of the given type
contextOf(keys, type, value) ==
  IF Len(keys) = 0 THEN <<[key |-> "", type |-> type, actual |-> value]>>
  ELSE appendContext(contextOf(SubSeq(keys, 1, Len(keys) - 1), type, value),
                     keys[Len(keys)], type, value)

Failure(keys, type, value, message) ==
  [value |-> value, context |-> contextOf(keys, type, value), message |-> message]

Failures ==
  {Failure(<<"name">>, t_string, Num(80), Undefined),
   Failure(<<"name">>, t_number, Undefined, Undefined),
   Failure(<<"", "name">>, Email, Str("bad"), Str("name: Rejected")),
   Failure(<<"items", "1", "name">>, t_string, Null, Undefined),
   Failure(<<>>, t_string, Arr(<<>>), Undefined),
   Failure(<<"root">>, Port, Num(70000), Undefined),
   Failure(<<"email">>,
           withMessage(Email, CustomErrorMessages(Str("Please enter a valid value"),
                                                  Str("Value is required"), Undefined, Undefined)),
           Str("bad"), Undefined),
   Failure(<<"email">>, Email, Undefined, Undefined)}

RECURSIVE Lists(_, _)
\* the sequences of at most n elements of S
Lists(S, n) ==
  IF n = 0 THEN {<<>>}
  ELSE LET shorter == Lists(S, n - 1)
       IN shorter \cup {Append(q, x) : q \in shorter, x \in S}

RawLists == Lists(Failures, MaxErrors)

(***************************************************************************)
(* The state: one call of the library on inputs drawn at the start.        *)
(***************************************************************************)
VARIABLES
  op,          \* the last operation: "init" or "new" before any, then the function's name
  codecOrDto,  \* the codec or DTO class of the call
  value,       \* the input value of the call
  raw,         \* the raw failure list handed to formatErrors
  result,      \* what codec.decode(value) gave
  outcome,     \* what decodeAndThrow(value, codecOrDto) did
  guard,       \* what codec.is returned
  encoded,     \* what codec.encode(result.right) did
  errors,      \* what formatErrors returned
  call,        \* the arguments of a call that builds a DTO class
  built,       \* what that call did
  heap,        \* the object a shared schema holds as its default, as it is now
  pipe,        \* the pipe of a transform call, its argument metadata and its warning
  openapi      \* the arguments of an ioTsToOpenAPI call, and what it did

vars ==
  <<op, codecOrDto, value, raw, result, outcome, guard, encoded, errors, call, built, heap,
    pipe,
    openapi>>

NoCodec == [kind |-> "none", name |-> ""]

NoResult == [tag |-> "None", right |-> Undefined, left |-> <<>>, thrown |-> Undefined, log |-> <<>>]

NoOutcome == [kind |-> "none", value |-> Undefined]

NoEncoded == returned(Undefined)

NoCall == [fn |-> "none", codec |-> Undefined, other |-> Undefined, keys |-> <<>>]

NoBuilt == returned(Undefined)

NoConverted == Converted(Undefined, FALSE, {}, <<>>, "none")

NoOpenAPI == [ioTsType |-> 0, visited |-> {}, converted |-> NoConverted]

NoPipe == [this |-> Undefined, metadata |-> Undefined, warned |-> FALSE]

NoHeap == [defaultValue |-> Undefined, aliased |-> FALSE]

\* the schema with the default its closure holds, which is the object it was handed
Current(schema, h) == [schema EXCEPT !.defaultValue = h.defaultValue]

\* the codec a codec or DTO class stands for
CodecOf(cd) == IF isIoTsDto(cd) THEN StaticCodec(cd) ELSE cd

Init ==
  /\ result = NoResult
  /\ outcome = NoOutcome
  /\ guard = FALSE
  /\ encoded = NoEncoded
  /\ errors = <<>>
  /\ built = NoBuilt
  /\ \/ /\ op = "init"
        /\ codecOrDto \in CodecsOrDtos
        /\ value \in Inputs(CodecOf(codecOrDto), 0)
        /\ raw = <<>>
        /\ call = NoCall
        /\ heap = NoHeap
        /\ pipe = NoPipe
        /\ openapi = NoOpenAPI
     \/ /\ op = "init"
        /\ codecOrDto = NoCodec
        /\ value = Undefined
        /\ raw \in RawLists
        /\ call = NoCall
        /\ heap = NoHeap
        /\ pipe = NoPipe
        /\ openapi = NoOpenAPI
     \/ /\ op = "new"
        /\ codecOrDto = NoCodec
        /\ value = Undefined
        /\ raw = <<>>
        /\ call \in Calls
        /\ heap = NoHeap
        /\ pipe = NoPipe
        /\ openapi = NoOpenAPI
     \/ /\ op = "shared"
        /\ codecOrDto \in SharedSchemas
        /\ value = Undefined
        /\ raw = <<>>
        /\ call = NoCall
        /\ heap = [defaultValue |-> codecOrDto.defaultValue, aliased |-> FALSE]
        /\ pipe = NoPipe
        /\ openapi = NoOpenAPI
     \/ /\ op = "pipe"
        /\ codecOrDto = NoCodec
        /\ value \in PipeValues
        /\ raw = <<>>
        /\ call = NoCall
        /\ heap = NoHeap
        /\ \E this \in Pipes, metadata \in Metadata :
             pipe = [this |-> this, metadata |-> metadata, warned |-> FALSE]
        /\ openapi = NoOpenAPI
     \/ /\ op = "openapi"
        /\ codecOrDto = NoCodec
        /\ value = Undefined
        /\ raw = <<>>
        /\ call = NoCall
        /\ heap = NoHeap
        /\ pipe = NoPipe
        /\ \E ioTsType \in DOMAIN Types, visited \in VisitedSets :
             openapi = [ioTsType |-> ioTsType, visited |-> visited, converted |-> NoConverted]

\* codec.decode(value)
Decode ==
  /\ op = "init"
  /\ codecOrDto \in Codecs
  /\ op' = "decode"
  /\ result' = decode(codecOrDto, value)
  /\ UNCHANGED <<codecOrDto, value, raw, outcome, guard, encoded, errors, call, built, heap, pipe, openapi>>

\* codec.is(value)
Is ==
  /\ op = "init"
  /\ codecOrDto \in Codecs
  /\ op' = "is"
  /\ guard' = is(codecOrDto, value)
  /\ UNCHANGED <<codecOrDto, value, raw, result, outcome, encoded, errors, call, built, heap, pipe, openapi>>

\* codec.is(codec.encode(a)) for the decoded value a
Encode ==
  /\ op = "decode"
  /\ result.tag = "Right"
  /\ op' = "encode"
  /\ encoded' = encode(codecOrDto, result.right)
  /\ guard' = IF encoded'.threw THEN FALSE ELSE is(codecOrDto, encoded'.value)
  /\ UNCHANGED <<codecOrDto, value, raw, result, outcome, errors, call, built, heap, pipe, openapi>>

\* decodeAndThrow(value, codecOrDto)
DecodeAndThrow ==
  /\ op = "init"
  /\ codecOrDto # NoCodec
  /\ op' = "decodeAndThrow"
  /\ outcome' = decodeAndThrow(value, codecOrDto)
  /\ UNCHANGED <<codecOrDto, value, raw, result, guard, encoded, errors, call, built, heap, pipe, openapi>>

\* formatErrors(result.left) after a decode that failed
FormatDecoded ==
  /\ op = "decode"
  /\ result.tag = "Left"
  /\ op' = "formatErrors"
  /\ raw' = result.left
  /\ errors' = formatErrors(result.left)
  /\ UNCHANGED <<codecOrDto, value, result, outcome, guard, encoded, call, built, heap, pipe, openapi>>

\* formatErrors(raw) on a failure list of the caller's
FormatGiven ==
  /\ op = "init"
  /\ codecOrDto = NoCodec
  /\ op' = "formatErrors"
  /\ errors' = formatErrors(raw)
  /\ UNCHANGED <<codecOrDto, value, raw, result, outcome, guard, encoded, call, built, heap, pipe, openapi>>

\* createIoTsDto(codec)
CreateIoTsDto ==
  /\ op = "new"
  /\ call.fn = "createIoTsDto"
  /\ op' = "createIoTsDto"
  /\ built' = createIoTsDto(call.codec)
  /\ UNCHANGED <<codecOrDto, value, raw, result, outcome, guard, encoded, errors, call, heap, pipe, openapi>>

\* createPartialDto(codec)
CreatePartialDto ==
  /\ op = "new"
  /\ call.fn = "createPartialDto"
  /\ op' = "createPartialDto"
  /\ built' = createPartialDto(call.codec)
  /\ UNCHANGED <<codecOrDto, value, raw, result, outcome, guard, encoded, errors, call, heap, pipe, openapi>>

\* createPickDto(codec, keys)
CreatePickDto ==
  /\ op = "new"
  /\ call.fn = "createPickDto"
  /\ op' = "createPickDto"
  /\ built' = createPickDto(call.codec, call.keys)
  /\ UNCHANGED <<codecOrDto, value, raw, result, outcome, guard, encoded, errors, call, heap, pipe, openapi>>

\* createOmitDto(codec, keys)
CreateOmitDto ==
  /\ op = "new"
  /\ call.fn = "createOmitDto"
  /\ op' = "createOmitDto"
  /\ built' = createOmitDto(call.codec, call.keys)
  /\ UNCHANGED <<codecOrDto, value, raw, result, outcome, guard, encoded, errors, call, heap, pipe, openapi>>

\* createIntersectionDto(codecA, codecB)
CreateIntersectionDto ==
  /\ op = "new"
  /\ call.fn = "createIntersectionDto"
  /\ op' = "createIntersectionDto"
  /\ built' = createIntersectionDto(call.codec, call.other)
  /\ UNCHANGED <<codecOrDto, value, raw, result, outcome, guard, encoded, errors, call, heap, pipe, openapi>>

\* schema.decode(value) on a schema that earlier calls have used: withDefault hands
\* out the default object itself, so the caller holds a reference to it afterwards
DecodeShared ==
  /\ op \in {"shared", "decodeShared", "mutate"}
  /\ \E v \in SharedInputs(codecOrDto) :
       /\ value' = v
       /\ result' = decode(Current(codecOrDto, heap), v)
       /\ heap' = [heap EXCEPT !.aliased = @ \/ v = Undefined]
  /\ op' = "decodeShared"
  /\ UNCHANGED <<codecOrDto, raw, outcome, guard, encoded, errors, call, built, pipe, openapi>>

\* the caller changes a value that an earlier decode returned
Mutate ==
  /\ op \in {"decodeShared", "mutate"}
  /\ heap.aliased
  /\ \E m \in Mutations(heap.defaultValue) : heap' = [heap EXCEPT !.defaultValue = m]
  /\ op' = "mutate"
  /\ UNCHANGED <<codecOrDto, value, raw, result, outcome, guard, encoded, errors, call, built, pipe, openapi>>


\* new IoTsValidationException(errors) with the list formatErrors returned, or with a string
NewException ==
  /\ op = "formatErrors"
  /\ \E errorsOrString \in {Arr(errors), Str("Something went wrong")} :
       /\ value' = errorsOrString
       /\ outcome' = [kind |-> "new", value |-> IoTsValidationException(errorsOrString)]
  /\ op' = "IoTsValidationException"
  /\ UNCHANGED <<codecOrDto, raw, result, guard, encoded, errors, call, built, heap, pipe, openapi>>


\* pipe.transform(value, metadata)
Transform ==
  /\ op = "pipe"
  /\ op' = "transform"
  /\ outcome' = IoTsValidationPipeTransform(pipe.this, value, pipe.metadata).outcome
  /\ pipe' = [pipe EXCEPT
                !.warned = IoTsValidationPipeTransform(pipe.this, value, pipe.metadata).warned]
  /\ UNCHANGED <<codecOrDto, value, raw, result, guard, encoded, errors, call, built, heap, openapi>>

\* ioTsToOpenAPI(ioTsType, visited)
IoTsToOpenAPI ==
  /\ op = "openapi"
  /\ op' = "ioTsToOpenAPI"
  /\ openapi' = [openapi EXCEPT
                   !.converted = ioTsToOpenAPI(Types, openapi.ioTsType, openapi.visited, <<>>)]
  /\ UNCHANGED <<codecOrDto, value, raw, result, outcome, guard, encoded, errors, call, built,
                 heap, pipe>>

Next ==
  \/ Decode \/ Is \/ Encode \/ DecodeAndThrow \/ FormatDecoded \/ FormatGiven
  \/ CreateIoTsDto \/ CreatePartialDto \/ CreatePickDto \/ CreateOmitDto
  \/ CreateIntersectionDto \/ DecodeShared \/ Mutate \/ NewException \/ Transform \/ IoTsToOpenAPI

Spec == Init /\ [][Next]_vars

(***************************************************************************)
(* Properties.                                                             *)
(***************************************************************************)
\* the states after codec.decode(value), formatted or not
Decoded == op \in {"decode", "formatErrors"} /\ codecOrDto # NoCodec

\* the field path formatErrors files a raw failure under
FieldOf(error) == formatError(error).field

\* the first failure of the raw list with the given field path
FirstWith(field) ==
  CHOOSE i \in 1..Len(raw) :
    FieldOf(raw[i]) = field /\ \A j \in 1..(i - 1) : FieldOf(raw[j]) # field

\* C1: decodeAndThrow returns the codec's decoded value when decode succeeds, and
\* otherwise throws an IoTsValidationException whose getErrors() is formatErrors of
\* the codec's raw failure list, for a codec and for a DTO class alike.
C1_ReturnsOrThrowsValidationException ==
  op = "decodeAndThrow" =>
    LET r == decode(CodecOf(codecOrDto), value)
    IN IF r.tag = "Right" THEN outcome = Returned(r.right)
       ELSE /\ outcome.kind = "throw"
            /\ outcome.value.t = "IoTsValidationException"
            /\ getErrors(outcome.value) = formatErrors(r.left)

\* C2: formatErrors returns exactly one ValidationError per distinct field path of
\* the raw list, each built from the first raw failure with that path, in the order
\* in which the paths first occur.
C2_OnePerPathFirstWins ==
  op = "formatErrors" =>
    /\ \A i \in 1..Len(raw) :
         Cardinality({k \in 1..Len(errors) : errors[k].field = FieldOf(raw[i])}) = 1
    /\ \A k \in 1..Len(errors) :
         /\ \E i \in 1..Len(raw) : FieldOf(raw[i]) = errors[k].field
         /\ errors[k] = formatError(raw[FirstWith(errors[k].field)])
    /\ \A k1, k2 \in 1..Len(errors) :
         k1 < k2 => FirstWith(errors[k1].field) < FirstWith(errors[k2].field)

\* a raw list with two different failures of one path was formatted into several entries
C2_Witness ==
  /\ op = "formatErrors"
  /\ Len(errors) >= 2
  /\ \E i, j \in 1..Len(raw) :
       i < j /\ FieldOf(raw[i]) = FieldOf(raw[j]) /\ formatError(raw[i]) # formatError(raw[j])

RECURSIVE BracketPath(_, _, _)
\* the path of a context with every array index as [i] after the preceding segment
\* and every property name after a dot, from entry i on
BracketPath(context, i, path) ==
  IF i > Len(context) THEN path
  ELSE BracketPath(context, i + 1,
                   IF context[i - 1].actual.t = "array"
                   THEN path \o "[" \o context[i].key \o "]"
                   ELSE IF path = "" THEN context[i].key
                   ELSE path \o "." \o context[i].key)

\* the context leads through records and arrays only, and through an array element
ThroughArrays(context) ==
  /\ \A i \in 1..(Len(context) - 1) :
       context[i].type.kind # "union" /\ context[i].actual.t \in {"array", "object"}
  /\ \E i \in 1..(Len(context) - 1) : context[i].actual.t = "array"

\* C3: an invalid element at index i of an array, wherever the array occurs (the
\* top-level schema included), is reported under a field path with [i] for the
\* element and the parent keys and indices in order.
C3_ArrayIndexInBrackets ==
  (op = "formatErrors" /\ codecOrDto # NoCodec) =>
    \A i \in 1..Len(raw) :
      ThroughArrays(raw[i].context) =>
        \E k \in 1..Len(errors) : errors[k].field = BracketPath(raw[i].context, 2, "")

\* the decoded codec declares id and f, f with schema F, in either order
RecordWith(F) ==
  codecOrDto \in {t_type(<<Prop("id", t_number), Prop("f", F)>>),
                  t_type(<<Prop("f", F), Prop("id", t_number)>>)}

\* the decoded value is an object valid but for f, which is omitted, null or undefined
MissingF ==
  /\ Decoded
  /\ value.t = "object"
  /\ Get(value, "id").t = "number"
  /\ Get(value, "f") \in {Undefined, Null}

\* the one error of the decode is for f and has the given code
OneErrorForF(code) ==
  /\ result.tag = "Left"
  /\ op = "formatErrors" => Len(errors) = 1 /\ errors[1].field = "f" /\ errors[1].code = code

\* C4 as stated: whatever the schema of a required field f (primitive, branded type,
\* nested record, array, nullable(S)), an otherwise valid object with f omitted, null
\* or undefined gives exactly one ValidationError for f, with code REQUIRED.
C4_AsStated ==
  \A F \in Leaves \cup {Address, t_array(t_string), nullable(t_string), nullable(Email)} :
    (RecordWith(F) /\ MissingF) => OneErrorForF("REQUIRED")

\* C4: for a field f whose schema is a primitive, a nested record, an array or a
\* branded type, an otherwise valid object with f omitted, null or undefined gives
\* exactly one ValidationError for f; its code is the code of the branded type when
\* the schema's name is in the default table (INVALID_EMAIL, INVALID_PORT) and
\* REQUIRED otherwise.  A field declared nullable(S) accepts null.
C4_OneErrorForMissingField ==
  /\ \A F \in Leaves \cup {Address, t_array(t_string)} :
       (RecordWith(F) /\ MissingF) =>
         OneErrorForF(CASE F = Email -> "INVALID_EMAIL"
                        [] F = Port -> "INVALID_PORT"
                        [] OTHER -> "REQUIRED")
  /\ \A S \in {t_string, Email} :
       (RecordWith(nullable(S)) /\ MissingF /\ hasOwnProperty(value, "f")
          /\ Get(value, "f") = Null) => result.tag = "Right"

\* a missing Email field was reported once, with the code of the branded type
C4_Witness ==
  /\ RecordWith(Email) /\ MissingF /\ ~hasOwnProperty(value, "f")
  /\ op = "formatErrors"
  /\ Len(errors) = 1 /\ errors[1].field = "f" /\ errors[1].code = "INVALID_EMAIL"

\* C5: the code, message and suggestion of an entry follow the precedence (a) custom
\* required message for a null or undefined value, (b) custom invalid message, a
\* string or a function of the value, for a present value, (c) the table entry of a
\* known branded type name, (d) REQUIRED with 'Field is required' for a null or
\* undefined value, (e) INVALID_TYPE with 'Expected X but received Y'.
C5_ErrorInfoPrecedence ==
  op = "formatErrors" =>
    \A k \in 1..Len(errors) :
      LET e == raw[FirstWith(errors[k].field)]
          m == getCustomMessage(e.context[Len(e.context)].type)
          x == errors[k].expected
          v == e.value
          missing == v = Null \/ v = Undefined
          y == IF v.t \in {"null", "undefined", "array"} THEN v.t ELSE typeof(v)
      IN IF m # Undefined /\ missing /\ m.required # Undefined
         THEN errors[k].message = m.required.s
         ELSE IF m # Undefined /\ ~missing /\ m.invalid # Undefined
         THEN errors[k].message = IF m.invalid.t = "function"
                                  THEN MessageFunction(m.invalid.fn, v)
                                  ELSE m.invalid.s
         ELSE IF x \in DOMAIN TYPE_ERROR_INFO
         THEN /\ errors[k].code = TYPE_ERROR_INFO[x].code
              /\ errors[k].message = TYPE_ERROR_INFO[x].message
              /\ errors[k].suggestion = TYPE_ERROR_INFO[x].suggestion
         ELSE IF missing
         THEN errors[k].code = "REQUIRED" /\ errors[k].message = "Field is required"
         ELSE /\ errors[k].code = "INVALID_TYPE"
              /\ errors[k].message = "Expected " \o x \o " but received " \o y

\* an invalid value of an Email with custom messages was reported with the custom text
C5_Witness ==
  /\ op = "formatErrors"
  /\ \E k \in 1..Len(errors) :
       /\ errors[k].expected = "Email"
       /\ errors[k].value = Str("bad")
       /\ errors[k].message = "Please enter a valid value"

\* C6: decoding an object against a record schema does not stop at the first failing
\* field: when decode returns, every declared field that holds an invalid value has
\* an error in the raw failure list and in the formatted list, whatever the order of
\* the declarations.
C6_EveryInvalidFieldReported ==
  (Decoded /\ codecOrDto \in Records /\ value.t = "object" /\ result.tag # "Throw") =>
    \A i \in 1..Len(codecOrDto.props) :
      LET k == codecOrDto.props[i].key
          F == codecOrDto.props[i].type
          under == {j \in 1..Len(result.left) :
                      Len(result.left[j].context) >= 2 /\ result.left[j].context[2].key = k}
      IN decode(F, Get(value, k)).tag = "Left" =>
           /\ result.tag = "Left"
           /\ under # {}
           /\ op = "formatErrors" =>
                \E n \in 1..Len(errors) : \E j \in under : errors[n] = formatError(result.left[j])

\* both fields of a User were invalid and both were reported
C6_Witness ==
  /\ op = "formatErrors"
  /\ codecOrDto = User
  /\ value.t = "object"
  /\ decode(t_string, Get(value, "name")).tag = "Left"
  /\ decode(t_number, Get(value, "age")).tag = "Left"
  /\ {errors[n].field : n \in 1..Len(errors)} = {"name", "age"}

\* the decode of U, a union of S and the codec of the absent value, as C7 states it
AsStated(S, absent) ==
  LET sr == decode(S, value)
  IN IF value = absent THEN result.tag = "Right" /\ result.right = absent
     ELSE /\ (result.tag = "Right") = (sr.tag = "Right")
          /\ result.tag = "Right" => result.right = sr.right

\* C7 as stated: optional(S).decode(v) succeeds with undefined when v is undefined,
\* fails when v is null unless S accepts null, and otherwise succeeds exactly when
\* S.decode(v) does, with S's value; nullable(S) mirrors it; is() agrees with decode.
C7_AsStated ==
  \A S \in Schemas :
    /\ (op = "decode" /\ codecOrDto = optional(S)) => AsStated(S, Undefined)
    /\ (op = "decode" /\ codecOrDto = nullable(S)) => AsStated(S, Null)
    /\ (op = "is" /\ codecOrDto \in {optional(S), nullable(S)}) =>
         guard = (decode(codecOrDto, value).tag = "Right")

\* the decode of a union of S and the codec of the absent value: S is tried first
SchemaFirst(S, absent) ==
  LET sr == decode(S, value)
  IN CASE sr.tag = "Right" -> result.tag = "Right" /\ result.right = sr.right
       [] sr.tag = "Throw" -> result.tag = "Throw" /\ result.thrown = sr.thrown
       [] OTHER -> IF value = absent THEN result.tag = "Right" /\ result.right = absent
                   ELSE result.tag = "Left"

\* C7: optional(S).decode(v) gives S's decoded value whenever S.decode(v) succeeds,
\* for v undefined too; when S rejects v it succeeds with undefined for v undefined
\* and fails for every other v, null included; an exception of S's decode propagates.
\* nullable(S) mirrors it with null.  optional(S).is(v) holds exactly when v is
\* undefined or S.is(v) holds, nullable(S).is(v) when v is null or S.is(v) holds.
C7_SchemaFirst ==
  \A S \in Schemas :
    /\ (op = "decode" /\ codecOrDto = optional(S)) => SchemaFirst(S, Undefined)
    /\ (op = "decode" /\ codecOrDto = nullable(S)) => SchemaFirst(S, Null)
    /\ (op = "is" /\ codecOrDto = optional(S)) => guard = (value = Undefined \/ is(S, value))
    /\ (op = "is" /\ codecOrDto = nullable(S)) => guard = (value = Null \/ is(S, value))

\* optional of a schema with a default decoded undefined to the default
C7_Witness ==
  /\ op = "decode"
  /\ codecOrDto = optional(withDefault(t_string, Str("a@b.co")))
  /\ value = Undefined
  /\ result.tag = "Right" /\ result.right = Str("a@b.co")

\* the root context of codecOrDto.decode(value)
RootContext == <<[key |-> "", type |-> codecOrDto, actual |-> value]>>

\* two results agree in everything but the calls made
SameResult(r1, r2) ==
  r1.tag = r2.tag /\ r1.right = r2.right /\ r1.left = r2.left /\ r1.thrown = r2.thrown

\* C8: withDefault(S, d).decode(undefined) succeeds with d without a call of S's
\* validate or predicate, whether or not S accepts d; for every other input, null
\* and invalid values included, the result is S's result for that input.
C8_DefaultOnlyForUndefined ==
  (op = "decode" /\ codecOrDto.kind = "withDefault") =>
    LET S == codecOrDto.codec
        sr == decode(S, value)
    IN IF value = Undefined
       THEN /\ result.tag = "Right" /\ result.right = codecOrDto.defaultValue
            /\ result.log = Call(codecOrDto, value)
       ELSE /\ SameResult(result, validate(S, value, RootContext))
            /\ result.tag = sr.tag /\ result.right = sr.right /\ result.thrown = sr.thrown
            /\ Len(result.left) = Len(sr.left)
            /\ \A j \in 1..Len(sr.left) :
                 /\ result.left[j].value = sr.left[j].value
                 /\ result.left[j].message = sr.left[j].message
                 /\ Len(result.left[j].context) = Len(sr.left[j].context)
                 /\ \A n \in 2..Len(sr.left[j].context) :
                      result.left[j].context[n] = sr.left[j].context[n]

\* undefined was decoded to a default the schema rejects
C8_Witness ==
  /\ op = "decode"
  /\ codecOrDto.kind = "withDefault"
  /\ value = Undefined
  /\ decode(codecOrDto.codec, codecOrDto.defaultValue).tag = "Left"
  /\ result.tag = "Right" /\ result.right = codecOrDto.defaultValue

\* the positions of the validator's calls among the calls of a decode
ValidatorCalls(log) == {n \in 1..Len(log) : log[n].ev = "validator"}

\* C9: in a decode of crossValidate(S, f), f is called at most once, only after S
\* has accepted the input and with S's decoded value; when S fails f is not called
\* and the result is S's failure list; when S succeeds and f returns an empty list
\* the result is S's success, and when f returns a non-empty list it is a failure.
C9_ValidatorAfterSchema ==
  (op = "decode" /\ codecOrDto.kind = "crossValidate") =>
    LET S == codecOrDto.codec
        f == codecOrDto.validator
        sr == validate(S, value, RootContext)
        calls == ValidatorCalls(result.log)
    IN /\ Cardinality(calls) <= 1
       /\ \A n \in calls :
            /\ sr.tag = "Right"
            /\ result.log[n] = [ev |-> "validator", validator |-> f, value |-> sr.right]
            /\ n = Len(result.log)
            /\ SubSeq(result.log, 2, n - 1) = sr.log
       /\ sr.tag = "Left" => calls = {} /\ result.tag = "Left" /\ result.left = sr.left
       /\ (sr.tag = "Right" /\ ~CrossValidator(f, sr.right).threw) =>
            IF Len(CrossValidator(f, sr.right).value) = 0
            THEN result.tag = "Right" /\ result.right = sr.right
            ELSE result.tag = "Left"

\* the validator was called on a decoded object and rejected it
C9_Witness ==
  /\ op = "decode"
  /\ codecOrDto = crossValidate(PasswordReset, "passwordsMatch")
  /\ ValidatorCalls(result.log) # {}
  /\ result.tag = "Left"

\* C10: decode of crossValidate(S, f) returns a success or a failure for every
\* input: an exception raised inside f is caught and does not propagate.
C10_ValidatorExceptionCaught ==
  (op = "decode" /\ codecOrDto.kind = "crossValidate") => result.tag \in {"Left", "Right"}

\* the positions of the transformer's calls among the calls of a decode
TransformerCalls(log) == {n \in 1..Len(log) : log[n].ev = "transformer"}

\* C11: transform(S, m).decode(v) gives S's failures, without a call of m, when S
\* rejects v; success(m(a)) when S accepts v as a; and when m throws, one failure
\* whose message is the thrown Error's message, or 'Transform failed' when what was
\* thrown is no Error: what m throws does not leave decode.
C11_TransformerGuarded ==
  (op = "decode" /\ codecOrDto.kind = "transform") =>
    LET S == codecOrDto.codec
        m == codecOrDto.transformer
        sr == validate(S, value, RootContext)
        calls == TransformerCalls(result.log)
        mapped == Transformer(m, sr.right)
    IN /\ sr.tag = "Left" => calls = {} /\ result.tag = "Left" /\ result.left = sr.left
       /\ sr.tag = "Right" =>
            /\ Cardinality(calls) = 1
            /\ \A n \in calls : result.log[n].value = sr.right /\ result.log[n].transformer = m
            /\ IF ~mapped.threw
               THEN result.tag = "Right" /\ result.right = mapped.value
               ELSE /\ result.tag = "Left"
                    /\ Len(result.left) = 1
                    /\ result.left[1].message =
                         Str(IF mapped.value.t = "Error" THEN mapped.value.message
                             ELSE "Transform failed")
       /\ sr.tag # "Throw" => result.tag # "Throw"

\* a transformer threw a string on a decoded Email and the decode failed with the
\* stock message
C11_Witness ==
  /\ op = "decode"
  /\ codecOrDto = transform(Email, "throwsString")
  /\ value = Str("a@b.co")
  /\ result.tag = "Left"
  /\ result.left[1].message = Str("Transform failed")

\* C12: for every schema built of primitives, branded types, records and the
\* combinators, and every input v the schema's decode accepts as a, encode(a) is a
\* value the schema's is() accepts.
C12_EncodedIsAccepted ==
  op = "encode" => ~encoded.threw /\ guard

\* the formatted lists agree in length and, entry by entry, in field path, expected
\* name and offending value
SameButMessages(es1, es2) ==
  /\ Len(es1) = Len(es2)
  /\ \A n \in 1..Len(es1) :
       /\ es1[n].field = es2[n].field
       /\ es1[n].expected = es2[n].expected
       /\ es1[n].value = es2[n].value

\* the decode of W, which is S with messages bound at the top or at the field f of a
\* record, against the decode of S
LikeUnbound(W, S) ==
  (Decoded /\ codecOrDto = W) =>
    LET sr == decode(S, value)
    IN /\ result.tag = sr.tag /\ result.right = sr.right /\ result.thrown = sr.thrown
       /\ SameButMessages(formatErrors(result.left), formatErrors(sr.left))
       /\ op = "formatErrors" => SameButMessages(errors, formatErrors(sr.left))

\* C13: withMessage(S, m).decode(v) succeeds exactly when S.decode(v) does, with the
\* same value, and fails with failures of the same field paths, expected names and
\* offending values, for m an object or a function; the wrapper has S's name, and S
\* carries no binding.
C13_MessagesOnlyChangeTexts ==
  \A S \in {t_string, Email, Port, User} : \A m \in Messages :
    /\ LikeUnbound(withMessage(S, m), S)
    /\ LikeUnbound(t_type(<<Prop("id", t_number), Prop("f", withMessage(S, m))>>),
                   t_type(<<Prop("id", t_number), Prop("f", S)>>))
    /\ withMessage(S, m).name = S.name
    /\ hasCustomMessage(withMessage(S, m)) /\ ~hasCustomMessage(S)

\* an Email with messages rejected a value: same path, name and value as the Email
\* alone, another message
C13_Witness ==
  /\ op = "formatErrors"
  /\ codecOrDto.kind = "withMessage"
  /\ codecOrDto.codec = Email
  /\ value = Str("bad")
  /\ Len(errors) = 1
  /\ errors[1].expected = "Email"
  /\ errors[1].message # formatErrors(decode(Email, value).left)[1].message

\* the formatted error list of this state: what formatErrors returned, or what the
\* exception of decodeAndThrow carries
ReportedErrors ==
  IF op = "formatErrors" THEN errors
  ELSE IF op = "decodeAndThrow" /\ outcome.kind = "throw"
            /\ outcome.value.t = "IoTsValidationException"
  THEN getErrors(outcome.value)
  ELSE <<>>

\* C14: when the validator of crossValidate returns {field, message} pairs for k >= 2
\* distinct fields, the error list of formatErrors and of decodeAndThrow has a
\* ValidationError addressed to each of those fields.
C14_OneEntryPerRejectedField ==
  (op \in {"formatErrors", "decodeAndThrow"} /\ CodecOf(codecOrDto).kind = "crossValidate") =>
    LET S == CodecOf(codecOrDto).codec
        sr == decode(S, value)
        crossErrors == CrossValidator(CodecOf(codecOrDto).validator, sr.right)
        fields == {crossErrors.value[i].field : i \in 1..Len(crossErrors.value)}
    IN (sr.tag = "Right" /\ ~crossErrors.threw /\ Cardinality(fields) >= 2) =>
         \A field \in fields : \E n \in 1..Len(ReportedErrors) : ReportedErrors[n].field = field

\* C15: a record field declared optional(T) that holds a present value T rejects is
\* reported by formatErrors with exactly one ValidationError, whose field is the
\* field's own path, without the index of a union member, and whose expected type is
\* T's name.
C15_OptionalFormattedAsItsSchema ==
  \A T \in {t_string} :
    (op = "formatErrors" /\ RecordWith(optional(T)) /\ value.t = "object"
       /\ Get(value, "id").t = "number"
       /\ Get(value, "f") # Undefined /\ decode(T, Get(value, "f")).tag = "Left") =>
      /\ Len(errors) = 1
      /\ errors[1].field = "f"
      /\ errors[1].expected = T.name

RECURSIVE Unwrapped(_)
\* the schema a wrapper hands its context to
Unwrapped(codec) ==
  IF codec.kind \in {"withDefault", "crossValidate", "transform", "withMessage", "brand"}
  THEN Unwrapped(codec.codec)
  ELSE codec

\* the keys of a context that name a field of a record or an element of an array:
\* those appended below an entry whose schema is not a union or an intersection
ValueKeys(context) ==
  LET steps == SelectSeq([j \in 1..(Len(context) - 1) |-> j + 1],
                         LAMBDA j : Unwrapped(context[j - 1].type).kind
                                      \notin {"union", "intersection"})
  IN [n \in 1..Len(steps) |-> context[steps[n]].key]

\* a key list as getFieldPath and formatErrors write it
PathOf(keys) == IF Len(keys) = 0 THEN "root" ELSE pathLoop(keys, 2, keys[1])

\* C16: the field path formatErrors gives every raw failure of a schema is made of
\* the object keys and array indices leading from the root to the offending value,
\* and of nothing else: no position of a union or intersection member is in it.
C16_PathOfKeysAndIndicesOnly ==
  (op = "formatErrors" /\ codecOrDto # NoCodec) =>
    \A i \in 1..Len(raw) : FieldOf(raw[i]) = PathOf(ValueKeys(raw[i].context))

\* the schema is a branded type of the default table, bare or as the inner schema
\* of one withDefault, transform, crossValidate, or withMessage without a custom
\* invalid text
BrandOrWrappedBrand(codec) ==
  \/ codec.kind = "brand" /\ codec.name \in DOMAIN TYPE_ERROR_INFO
  \/ /\ codec.kind \in {"withDefault", "transform", "crossValidate", "withMessage"}
     /\ codec.codec.kind = "brand"
     /\ codec.codec.name \in DOMAIN TYPE_ERROR_INFO
     /\ codec.kind = "withMessage" => ~Truthy(codec.CUSTOM_MESSAGE_SYMBOL.invalid)

BrandOf(codec) == IF codec.kind = "brand" THEN codec ELSE codec.codec

\* C17: a present value that a branded type rejects is reported as one failure whose
\* expected type is the brand's name, with the brand's own code and message, also
\* when the brand is the inner schema of withMessage (no custom invalid text),
\* withDefault, transform or crossValidate.
C17_BrandReportedAsItself ==
  (op = "formatErrors" /\ codecOrDto # NoCodec /\ BrandOrWrappedBrand(CodecOf(codecOrDto))
     /\ value \notin {Undefined, Null}
     /\ decode(BrandOf(CodecOf(codecOrDto)), value).tag = "Left") =>
    LET B == BrandOf(CodecOf(codecOrDto))
    IN /\ Len(errors) = 1
       /\ errors[1].expected = B.name
       /\ errors[1].code = TYPE_ERROR_INFO[B.name].code
       /\ errors[1].message = TYPE_ERROR_INFO[B.name].message

\* a DTO utility has been called
Built == op \in {"createIoTsDto", "createPartialDto", "createPickDto", "createOmitDto",
                 "createIntersectionDto"}

\* the call was handed something that is not what the function asks for: no io-ts
\* Type for createIoTsDto, a base without a field map for the utilities
BadArgument ==
  CASE op = "createIoTsDto" -> ~IsType(call.codec)
    [] op = "createIntersectionDto" -> ~HasProps(call.codec) \/ ~HasProps(call.other)
    [] OTHER -> ~HasProps(call.codec)

\* C18: createIoTsDto with a missing or invalid codec, and createPartialDto,
\* createPickDto, createOmitDto and createIntersectionDto with a base that has no
\* field map, throw and return no DTO.
C18_BadConstructionThrows == (Built /\ BadArgument) => built.threw

\* the keys of a field map, and of a key list
KeysOf(fields) == {fields[i].key : i \in 1..Len(fields)}

Range(keys) == {keys[n] : n \in 1..Len(keys)}

\* the field map of the codec of the DTO class a call returned
FieldsOf(dto) == dto.value.codec.props

\* every field of the DTO's codec is a required field with the schema the base gives it
KeepsSchemas(dto, P) ==
  /\ dto.value.codec.kind = "type"
  /\ \A i \in 1..Len(FieldsOf(dto)) :
       /\ FieldsOf(dto)[i] = PropOf(FieldsOf(dto)[i].key, P)
       /\ \A j \in 1..Len(FieldsOf(dto)) : FieldsOf(dto)[j].key = FieldsOf(dto)[i].key => j = i

\* C19: for a record codec C with field map P and a key list K, the codec of
\* createPickDto(C, K) has exactly the fields in both K and P and the codec of
\* createOmitDto(C, K) exactly the fields of P not in K, each required and with C's
\* sub-schema; the two field sets are disjoint and together the fields of P.
C19_PickAndOmitSplitTheFields ==
  (op \in {"createPickDto", "createOmitDto"} /\ call.codec \in Bases \ {Undefined}
     /\ call.codec.kind = "type") =>
    LET P == call.codec.props
        K == call.keys
        picked == createPickDto(call.codec, K)
        omitted == createOmitDto(call.codec, K)
    IN /\ ~built.threw
       /\ built = IF op = "createPickDto" THEN picked ELSE omitted
       /\ KeepsSchemas(built, P)
       /\ op = "createPickDto" => KeysOf(FieldsOf(built)) = KeysOf(P) \cap Range(K)
       /\ op = "createOmitDto" => KeysOf(FieldsOf(built)) = KeysOf(P) \ Range(K)
       /\ KeysOf(FieldsOf(picked)) \cap KeysOf(FieldsOf(omitted)) = {}
       /\ KeysOf(FieldsOf(picked)) \cup KeysOf(FieldsOf(omitted)) = KeysOf(P)

\* a pick and an omit with a key of the base and a key that is none of its fields
C19_Witness ==
  /\ op \in {"createPickDto", "createOmitDto"}
  /\ call.codec = User
  /\ call.keys = <<"age", "zip">>
  /\ KeysOf(FieldsOf(built)) = IF op = "createPickDto" THEN {"age"} ELSE {"name"}

\* C20: on a shared schema, whatever calls were made before and whatever the caller
\* did to the values they returned, decode gives what the schema as it was
\* constructed gives for the same input.
C20_ResultDependsOnInputAndSchemaOnly ==
  op = "decodeShared" =>
    /\ result.tag = decode(codecOrDto, value).tag
    /\ result.right = decode(codecOrDto, value).right
    /\ result.left = decode(codecOrDto, value).left

\* an IoTsValidationException has been constructed or thrown
Exception == outcome.kind \in {"new", "throw"} /\ outcome.value.t = "IoTsValidationException"

\* C21: every IoTsValidationException has status 400 and the response { statusCode:
\* 400, message: 'Validation failed', error: 'Bad Request', errors: E } with E the
\* list getErrors() returns: the list it was constructed from, or the single entry
\* { field: 'unknown', message: s } when constructed from the string s.
C21_ExceptionResponse ==
  Exception =>
    LET e == outcome.value
    IN /\ getStatus(e) = 400
       /\ getResponse(e) = [statusCode |-> 400, message |-> "Validation failed",
                            error |-> "Bad Request", errors |-> getErrors(e)]
       /\ (op = "IoTsValidationException" /\ value.t = "array") => getErrors(e) = value.a
       /\ (op = "IoTsValidationException" /\ value.t = "string") =>
            getErrors(e) = <<[field |-> "unknown", message |-> value.s]>>

\* an exception made from a string and one made from a list of two errors
C21_Witness ==
  /\ op = "IoTsValidationException"
  /\ \/ value = Str("Something went wrong")
        /\ getErrors(outcome.value) = <<[field |-> "unknown", message |-> "Something went wrong"]>>
     \/ value.t = "array" /\ Len(value.a) = 2 /\ getErrors(outcome.value) = errors

\* the options of the pipe of the call
Option(name) == Get(pipe.this.options, name)

\* the pipe has no codec or DTO class of its own and the argument is declared with a
\* class that is neither a DTO class nor a primitive constructor
NoDtoForClass ==
  /\ op = "transform"
  /\ pipe.this.codecOrDto = Undefined
  /\ pipe.metadata.metatype = Class("RegularDto")
  /\ ~isSkipped(pipe.this, pipe.metadata)

\* C22: when the pipe has no explicit codec or DTO and the argument's metatype is a
\* class that is not an IoTsDto, transform throws with allowPassthrough false (the
\* default) and lets the value pass through with allowPassthrough true.
C22_ThrowsUnlessPassthrough ==
  NoDtoForClass =>
    IF Option("allowPassthrough") = Bool(TRUE) THEN outcome.kind = "return"
    ELSE outcome.kind = "throw"

\* the codec the pipe validates the argument with, when it has one
Applies ==
  \/ pipe.this.codecOrDto # Undefined
  \/ pipe.metadata.metatype # Undefined /\ isIoTsDto(pipe.metadata.metatype)

Applied ==
  IF pipe.this.codecOrDto # Undefined THEN CodecOf(pipe.this.codecOrDto)
  ELSE StaticCodec(pipe.metadata.metatype)

\* what validating the input with the codec of the call gives
Validated(input) ==
  LET r == decode(Applied, input)
  IN IF r.tag = "Right" THEN Returned(r.right)
     ELSE Thrown(IoTsValidationException(Arr(formatErrors(r.left))))

RECURSIVE CoercedTo(_, _)
\* w is v with every string at any depth replaced: 'true' and 'false' by the
\* booleans, 'null' by null, 'undefined' by undefined, a non-empty string that
\* Number reads as a number by that number; everything else is as in v
CoercedTo(v, w) ==
  CASE v.t = "string" ->
         w = (CASE v.s = "true" -> Bool(TRUE)
                [] v.s = "false" -> Bool(FALSE)
                [] v.s = "null" -> Null
                [] v.s = "undefined" -> Undefined
                [] v.s \in {"80", "0", "-1", "70000", " "} -> Numerals[v.s]
                [] v.s = "3.5" -> Real(3, 5)
                [] OTHER -> v)
    [] v.t = "array" ->
         /\ w.t = "array" /\ Len(w.a) = Len(v.a)
         /\ \A i \in 1..Len(v.a) : CoercedTo(v.a[i], w.a[i])
    [] v.t = "object" ->
         /\ w.t = "object" /\ DOMAIN w.o = DOMAIN v.o
         /\ \A k \in DOMAIN v.o : CoercedTo(v.o[k], w.o[k])
    [] OTHER -> w = v

C24_UnlistedTypesReturnedAsGiven ==
  (op = "transform" /\ Option("validateTypes") # Undefined) =>
    IF ~includes(Option("validateTypes"), Str(pipe.metadata.type))
    THEN outcome = Returned(value) /\ ~pipe.warned
    ELSE Applies =>
           outcome = Validated(IF isCoerced(pipe.this, pipe.metadata)
                               THEN coerceObject(value) ELSE value)

\* a query the explicit codec rejects, coercion on, and only body validated
C24_Witness ==
  /\ op = "transform"
  /\ pipe.this.codecOrDto = Pagination
  /\ Option("validateTypes") = Arr(<<Str("body")>>)
  /\ Option("coerceQueryStrings") = Bool(TRUE)
  /\ pipe.metadata.type = "query"
  /\ value = Obj([page |-> Str("bad"), active |-> Str("undefined")])
  /\ outcome = Returned(value)

PortNumber(v) == v.t = "number" /\ DOMAIN v = {"t", "n"} /\ v.n \in 0..65535

\* the fields of the record schema of the call that are declared as Port
PortFields ==
  IF codecOrDto \in Codecs /\ codecOrDto.kind = "type"
  THEN {codecOrDto.props[i].key :
          i \in {j \in 1..Len(codecOrDto.props) : codecOrDto.props[j].type = Port}}
  ELSE {}

\* C25: Port.decode(n) succeeds exactly when n is an integer number with
\* 0 <= n <= 65535, and a value that Port rejects as a field of a record is
\* formatted with code INVALID_PORT.
C25_PortRange ==
  /\ (Decoded /\ codecOrDto = Port) => (result.tag = "Right" <=> PortNumber(value))
  /\ (op = "formatErrors" /\ codecOrDto # NoCodec /\ value.t = "object") =>
       \A f \in PortFields :
         ~PortNumber(Get(value, f)) =>
           \E n \in 1..Len(errors) : errors[n].field = f /\ errors[n].code = "INVALID_PORT"

\* a record with a Port field that holds a number in range which is no integer
C25_Witness ==
  /\ op = "formatErrors"
  /\ value.t = "object"
  /\ PortFields # {}
  /\ \E f \in PortFields : Get(value, f) = Real(80, 5)

\* the days of the twelve months of a year
MonthLengths(year) ==
  LET leap == (year % 400 = 0) \/ (year % 4 = 0 /\ year % 100 # 0)
  IN <<31, IF leap THEN 29 ELSE 28, 31, 30, 31, 30, 31, 31, 30, 31, 30, 31>>

\* the number written by the characters from..to of a text, all of them digits
Written(chars, from, to) ==
  LET RECURSIVE upTo(_)
      upTo(i) == IF i < from THEN 0 ELSE 10 * upTo(i - 1) + DigitValue[chars[i]]
  IN upTo(to)

\* v is a string YYYY-MM-DD that names a day of the calendar
CalendarDate(v) ==
  /\ v.t = "string"
  /\ Len(v.chars) = 10
  /\ v.chars[5] = "-" /\ v.chars[8] = "-"
  /\ \A i \in {1, 2, 3, 4, 6, 7, 9, 10} : v.chars[i] \in DOMAIN DigitValue
  /\ Written(v.chars, 6, 7) \in 1..12
  /\ Written(v.chars, 9, 10) \in
       1..MonthLengths(Written(v.chars, 1, 4))[Written(v.chars, 6, 7)]

\* C26: DateString accepts a value exactly when it is a string of the form
\* YYYY-MM-DD whose year, month and day name a real calendar date (the day within
\* the month's length, February 29 in leap years only), whichever way the engine
\* reads a day beyond the month; every other string and every non-string is
\* rejected, by decode and by is alike.
C26_DateStringCalendar ==
  /\ (Decoded /\ codecOrDto = DateString) => (result.tag = "Right" <=> CalendarDate(value))
  /\ (op = "is" /\ codecOrDto = DateString) => (guard <=> CalendarDate(value))
  /\ (Decoded /\ codecOrDto = DateString /\ value.t = "string") =>
       \A engine \in Engines : isValidDateStringOn(engine, value.chars) <=> CalendarDate(value)

\* February 29 of a year that is no leap year was decoded, and rejected
C26_Witness ==
  /\ Decoded /\ codecOrDto = DateString
  /\ value = DateText(2023, 2, 29)
  /\ result.tag = "Left"

\* C27: when the schema a failure is reported at carries a message binding that
\* sets code, the failure's ValidationError has that code, and when the binding
\* sets suggestion it has that suggestion, whether or not the binding has a text
\* for the case at hand (required for a missing value, invalid for any other).
C27_CustomCodeAndSuggestionUsed ==
  op = "formatErrors" =>
    \A k \in 1..Len(errors) :
      LET e == raw[FirstWith(errors[k].field)]
          m == getCustomMessage(e.context[Len(e.context)].type)
      IN m # Undefined =>
           /\ m.code # Undefined => errors[k].code = m.code.s
           /\ m.suggestion # Undefined => errors[k].suggestion = m.suggestion

\* the type objects a type object is built of
PartsOf(id) ==
  LET T == Types[id]
  IN CASE T.tag \in {"ArrayType", "RefinementType"} -> {T.type}
       [] T.tag = "UnionType" -> Range(T.types)
       [] T.tag \in {"InterfaceType", "PartialType"} /\ T.props # Null ->
            {T.props.entries[n].type : n \in 1..Len(T.props.entries)}
       [] OTHER -> {}

RECURSIVE Within(_, _)
\* the type objects found at most steps levels below those of ids
Within(ids, steps) ==
  IF steps = 0 THEN ids ELSE Within(ids \cup UNION {PartsOf(id) : id \in ids}, steps - 1)

\* the type objects that hold themselves
SelfHolding == {id \in DOMAIN Types : id \in Within(PartsOf(id), Len(Types))}

\* C28: a call of ioTsToOpenAPI ends for every type, the types that hold
\* themselves and the t.recursion types included; every call made on the way, the
\* outermost one too, leaves the visited set as it found it, whether it returned
\* at the end, returned early or threw; and a $ref takes the place of a type only
\* when the type is being converted further out or was in the caller's set, so a
\* type used in sibling positions is converted inline at each of them.
C28_VisitedIsScoped ==
  op = "ioTsToOpenAPI" =>
    LET done == openapi.converted
    IN /\ done.visited = openapi.visited
       /\ Len(done.log) >= 1
       /\ done.log[Len(done.log)].ioTsType = openapi.ioTsType
       /\ \A n \in 1..Len(done.log) :
            /\ done.log[n].after = done.log[n].before
            /\ done.log[n].exit = "visited" =>
                 done.log[n].ioTsType \in openapi.visited \cup SelfHolding
       /\ (openapi.ioTsType = 7 /\ openapi.visited = {}) =>
            done.value =
              Obj([type |-> Str("object"),
                   properties |-> Obj([street |-> Obj([type |-> Str("string")]),
                                       city |-> Obj([type |-> Str("string")])]),
                   required |-> Arr(<<Str("street"), Str("city")>>)])

\* a conversion that began with a set of the caller's and threw three calls deep,
\* after a sibling had been converted
C28_Witness ==
  /\ op = "ioTsToOpenAPI"
  /\ openapi.ioTsType = 17
  /\ openapi.visited = {1, 8}
  /\ openapi.converted.threw
  /\ Len(openapi.converted.log) = 4

\* the failures of a list with the message of each replaced by m
WithMessages(failureList, m) ==
  [n \in 1..Len(failureList) |-> [failureList[n] EXCEPT !.message = m]]

\* the texts a validator handed to crossValidate returns and a function handed to
\* transform throws, and the failure messages made of them
SuppliedTexts ==
  {"Passwords do not match", "Emails do not match", "Rejected", "Transform error!",
   "not an Error", "Transform failed", "value: Rejected", "name: Rejected",
   "confirmPassword: Passwords do not match",
   "confirmPassword: Passwords do not match; confirmEmail: Emails do not match"}

\* C30: the list formatErrors returns depends on the context and the value of each
\* raw failure only: the same failures with their messages removed, or replaced by
\* any other text, format to the same list, and no message, code or suggestion of
\* a ValidationError is the message of a raw failure or a text that a crossValidate
\* validator returned or a transform function threw.
C30_FailureMessageNeverRead ==
  op = "formatErrors" =>
    /\ \A m \in {Undefined} \cup {Str(text) : text \in SuppliedTexts} :
         formatErrors(WithMessages(raw, m)) = errors
    /\ \A n \in 1..Len(raw) : raw[n].message # Undefined => raw[n].message.s \in SuppliedTexts
    /\ \A k \in 1..Len(errors) :
         /\ errors[k].message \notin SuppliedTexts
         /\ errors[k].code \notin SuppliedTexts
         /\ errors[k].suggestion \notin {Str(text) : text \in SuppliedTexts}

\* a crossValidate schema whose validator found two mismatches was decoded and
\* its failure, which carries the validator's texts, formatted
C30_Witness ==
  /\ op = "formatErrors"
  /\ codecOrDto # NoCodec /\ codecOrDto.kind = "crossValidate"
  /\ Len(raw) = 1
  /\ raw[1].message =
       Str("confirmPassword: Passwords do not match; confirmEmail: Emails do not match")
  /\ Len(errors) = 1

====
